---------------------------- MODULE Spec2Model ----------------------------
(***************************************************************************)
(* A model of unduck (src/index.js): duck ponds (catalogues of duck type   *)
(* descriptions), the metadata maker that normalises a description, the    *)
(* decision tree built over the normalised descriptions, and the processor *)
(* that upgrades a bag of properties to a class instance.                  *)
(*                                                                         *)
(* JavaScript values are records [k, s, n]: k is the kind, s the text of a *)
(* string, symbol or function, n a number or the address of an object.     *)
(* Objects of the caller live in the input heap `graph'; objects made      *)
(* during one call live in that call's own heap (st.heap).                 *)
(***************************************************************************)
EXTENDS Integers, Sequences, FiniteSets, TLC

VARIABLES
    family,     \* the calling program: names its descriptions and its inputs
    rawShapes,  \* the duck type descriptions of the caller (mutable objects)
    ponds,      \* the duck ponds made so far, ponds[1] is module.exports.unduck
    registered, \* how many descriptions were registered after the setup
    last,       \* what the last operation of the caller did and returned
    walk        \* the call under way, when it is followed step by step

vars == <<family, rawShapes, ponds, registered, last, walk>>

----------------------------------------------------------------------------
(* Values *)

Num(n) == [k |-> "number", s |-> "", n |-> n]
Str(s) == [k |-> "string", s |-> s, n |-> 0]
Bool(b) == [k |-> "boolean", s |-> IF b THEN "true" ELSE "false", n |-> 0]
Undefined == [k |-> "undefined", s |-> "", n |-> 0]
Null == [k |-> "null", s |-> "", n |-> 0]
Fn(name) == [k |-> "function", s |-> name, n |-> 0]
\* an object of the caller: graph[i]
Ref(i) == [k |-> "ref", s |-> "", n |-> i]
\* an object made by the call under way: st.heap[i]
Obj(i) == [k |-> "obj", s |-> "", n |-> i]

\* property keys are strings; the keys in SymbolKeys stand for symbols
SymbolKeys == {"@s", "@t"}
IsSymbol(key) == key \in SymbolKeys

----------------------------------------------------------------------------
(* Bags: sequences of <<key, value>> with distinct keys, in the order the  *)
(* host enumerates them.                                                   *)

RECURSIVE IndexOfKey(_, _, _)
IndexOfKey(bag, key, i) ==
    IF i > Len(bag) THEN 0
    ELSE IF bag[i][1] = key THEN i
    ELSE IndexOfKey(bag, key, i + 1)

\* key in bag
In(key, bag) == IndexOfKey(bag, key, 1) # 0

\* bag[key]; undefined when the key is absent
Get(bag, key) ==
    LET i == IndexOfKey(bag, key, 1)
    IN IF i = 0 THEN Undefined ELSE bag[i][2]

\* bag[key] = v
Put(bag, key, v) ==
    LET i == IndexOfKey(bag, key, 1)
    IN IF i = 0 THEN Append(bag, <<key, v>>)
       ELSE [bag EXCEPT ![i] = <<key, v>>]

KeysOf(bag) == [i \in 1..Len(bag) |-> bag[i][1]]

\* the entries of bag whose key is not `key'
RECURSIVE Without(_, _)
Without(bag, key) ==
    IF bag = <<>> THEN <<>>
    ELSE IF Head(bag)[1] = key THEN Without(Tail(bag), key)
    ELSE <<Head(bag)>> \o Without(Tail(bag), key)

\* getOwnPropertyNames(x) followed by getOwnPropertySymbols(x)
StringEntries(bag) == SelectSeq(bag, LAMBDA e : ~IsSymbol(e[1]))
SymbolEntries(bag) == SelectSeq(bag, LAMBDA e : IsSymbol(e[1]))

----------------------------------------------------------------------------
(* Errors.  kind is the class of the thrown object; a and b carry the      *)
(* names the message mentions.                                             *)

NoError == [kind |-> "", msg |-> "", a |-> "", b |-> ""]
Err(kind, msg, a, b) == [kind |-> kind, msg |-> msg, a |-> a, b |-> b]

----------------------------------------------------------------------------
(* The metadata maker: src/index.js, duckTypeMetadataMaker.                *)

\* hasOwn(obj, name)
hasOwn(obj, name) == name \in DOMAIN obj

NoConvert ==
    [kind |-> "none", requiresValue |-> FALSE, requiredValue |-> Undefined,
     type |-> Null, requireTrusted |-> FALSE, innocuous |-> Null,
     rawConvert |-> Null]

\* makePropertyMetadata(key): the property record stored in properties[key]
makePropertyMetadata(rawProperty) ==
    LET hasDefault == hasOwn(rawProperty, "default")
        defaultValue == IF hasDefault THEN rawProperty.default ELSE Null
        required == IF hasOwn(rawProperty, "required")
                    THEN rawProperty.required = Bool(TRUE)
                    ELSE ~hasDefault
        recurse == IF hasOwn(rawProperty, "recurse")
                   THEN rawProperty.recurse = Bool(TRUE)
                   ELSE ~hasOwn(rawProperty, "value")
        rawConvert0 == IF hasOwn(rawProperty, "convert")
                       THEN rawProperty.convert ELSE Null
        rawConvert == IF rawConvert0.k # "function" THEN Null ELSE rawConvert0
        hasInnocuous == hasOwn(rawProperty, "innocuous")
        requireTrusted == IF hasOwn(rawProperty, "trusted")
                          THEN rawProperty.trusted = Bool(TRUE)
                          ELSE hasInnocuous
        type0 == IF hasOwn(rawProperty, "type") THEN rawProperty.type ELSE Null
        type == IF type0.k # "string" /\ type0.k # "function" THEN Null ELSE type0
        requiresValue == hasOwn(rawProperty, "value")
        requiredValue == IF requiresValue THEN rawProperty.value ELSE Bool(FALSE)
        innocuous == IF hasInnocuous THEN rawProperty.innocuous ELSE defaultValue
        convert ==
            IF requireTrusted \/ type # Null \/ requiresValue
            THEN [kind |-> "composed", requiresValue |-> requiresValue,
                  requiredValue |-> requiredValue, type |-> type,
                  requireTrusted |-> requireTrusted, innocuous |-> innocuous,
                  rawConvert |-> rawConvert]
            ELSE IF rawConvert # Null
            THEN [NoConvert EXCEPT !.kind = "raw", !.rawConvert = rawConvert]
            ELSE NoConvert
    IN [hasDefault |-> hasDefault, default |-> defaultValue,
        required |-> required, hasValue |-> requiresValue,
        value |-> IF requiresValue THEN rawProperty.value ELSE Undefined,
        recurse |-> recurse, convert |-> convert]

\* the keys makeMetadata visits: string keys, then symbol keys
MetadataKeyOrder(rawProperties) ==
    KeysOf(StringEntries(rawProperties) \o SymbolEntries(rawProperties))

\* the keys of keys whose property passes Test, in order
RECURSIVE KeysWhere(_, _, _)
KeysWhere(keys, properties, field) ==
    IF keys = <<>> THEN <<>>
    ELSE LET key == Head(keys)
             p == Get(properties, key)
             hit == CASE field = "required" -> p.required
                      [] field = "default" -> p.hasDefault
                      [] field = "convert" -> p.convert.kind # "none"
                      [] field = "recurse" -> p.recurse
         IN (IF hit THEN <<key>> ELSE <<>>)
                \o KeysWhere(Tail(keys), properties, field)

\* the checks of makeMetadata, in its order; NoError when the description
\* is accepted
MetadataError(duckType) ==
    IF ~(hasOwn(duckType, "classType") /\ duckType.classType.k = "function")
    THEN Err("Error", "Duck type missing .classType", "", "")
    ELSE IF ~(hasOwn(duckType, "properties")
              /\ duckType.properties.k = "object")
    THEN Err("Error", "Duck type missing .properties", "", "")
    ELSE IF ~(hasOwn(duckType, "toConstructorArguments")
              /\ duckType.toConstructorArguments.k = "function")
    THEN Err("Error", "Duck type missing .toConstructorArguments", "", "")
    ELSE NoError

\* the augmented record makeMetadata builds for a description it accepts
Augmented(id, duckType) ==
    LET augmented(keys, properties) ==
            [id |-> id,
             classType |-> duckType.classType,
             properties |-> properties,
             toConstructorArguments |-> duckType.toConstructorArguments,
             convertKeys |-> KeysWhere(keys, properties, "convert"),
             recurseToKeys |-> KeysWhere(keys, properties, "recurse"),
             defaultKeys |-> KeysWhere(keys, properties, "default"),
             requiredKeys |-> KeysWhere(keys, properties, "required")]
        forEach(rawProperties, keys) ==
            augmented(keys,
                      [i \in 1..Len(keys) |->
                          <<keys[i],
                            makePropertyMetadata(Get(rawProperties, keys[i]))>>])
    IN forEach(duckType.properties.props,
               MetadataKeyOrder(duckType.properties.props))

\* makeMetadata(duckType) on the cache metadataMap: the error thrown or the
\* record returned, and the cache afterwards
makeMetadata(metadataMap, id, duckType) ==
    LET e == MetadataError(duckType)
    IN IF e # NoError THEN [err |-> e, map |-> metadataMap]
       ELSE IF In(id, metadataMap) THEN [err |-> NoError, map |-> metadataMap]
       ELSE IF In("__proto__", duckType.properties.props)
       THEN [err |-> Err("Error",
                         "__proto__ has a special meaning that is incompatible with POJOs",
                         "", ""),
             map |-> metadataMap]
       ELSE [err |-> NoError,
             map |-> Put(metadataMap, id, Augmented(id, duckType))]

----------------------------------------------------------------------------
(* The decision tree: src/index.js, keysForTypes .. class DTree.           *)

\* an Array.from(new Set(seq)) that keeps every occurrence
Repeated(seq) == seq

\* the distinct elements of a sequence, in the order of their first
\* occurrence (the iteration order of a Set or of the keys of a Map)
RECURSIVE Distinct(_)
Distinct(seq) ==
    IF seq = <<>> THEN <<>>
    ELSE LET front == Distinct(SubSeq(seq, 1, Len(seq) - 1))
             x == seq[Len(seq)]
         IN IF \E i \in 1..Len(front) : front[i] = x THEN front
            ELSE Append(front, x)

Range(seq) == {seq[i] : i \in 1..Len(seq)}

\* every <<key, required>> of every type, in the order addKey sees them
RECURSIVE KeyOccurrences(_)
KeyOccurrences(duckTypes) ==
    IF duckTypes = <<>> THEN <<>>
    ELSE LET properties == Head(duckTypes).properties
         IN [i \in 1..Len(properties) |->
                <<properties[i][1], properties[i][2].required>>]
            \o KeyOccurrences(Tail(duckTypes))

\* keysForTypes(duckTypes): [ keys, optionalOnly ]
keysForTypes(duckTypes) ==
    LET occ == KeyOccurrences(duckTypes)
        required == Distinct(KeysOf(SelectSeq(occ, LAMBDA o : o[2])))
        optional == Distinct(KeysOf(SelectSeq(occ, LAMBDA o : ~o[2])))
        keys == optional
                  \o SelectSeq(required, LAMBDA key : key \notin Range(optional))
        optionalOnly == SelectSeq(optional, LAMBDA key : key \notin Range(required))
    IN <<keys, optionalOnly>>

(* Entropies.  An entropy is (Sum n * log2 n) / (Sum n) over partition    *)
(* sizes n.  With sizes up to 4 the numerator is                           *)
(* two + three * log2(3) for integers two and three, so an entropy is kept *)
(* exactly as [two, three, den]; den = 0 stands for Infinity.  The doubles *)
(* of the source order these values as the reals do.                       *)
Infinity == [two |-> 0, three |-> 0, den |-> 0]

\* n * log2(n) as <<two, three>>
NLog2N(n) ==
    CASE n = 1 -> <<0, 0>>
      [] n = 2 -> <<2, 0>>
      [] n = 3 -> <<0, 3>>
      [] n = 4 -> <<8, 0>>

RECURSIVE entropyAfterPartitions(_)
entropyAfterPartitions(partitionLengths) ==
    IF partitionLengths = <<>> THEN Infinity
    ELSE LET rest == entropyAfterPartitions(Tail(partitionLengths))
             n == Head(partitionLengths)
         IN IF n = 0 THEN rest
            ELSE [two |-> rest.two + NLog2N(n)[1],
                  three |-> rest.three + NLog2N(n)[2],
                  den |-> rest.den + n]

\* log2(3) lies strictly between Log2Of3Low / Log2Of3Scale and
\* (Log2Of3Low + 1) / Log2Of3Scale
Log2Of3Low == 1584962
Log2Of3Scale == 1000000

\* p + q * log2(3) < 0
Negative(p, q) ==
    IF q = 0 THEN p < 0
    ELSE IF q > 0 THEN q * (Log2Of3Low + 1) <= (0 - p) * Log2Of3Scale
    ELSE (0 - q) * Log2Of3Low >= p * Log2Of3Scale

\* e1 < e2
EntropyLess(e1, e2) ==
    IF e1.den = 0 THEN FALSE
    ELSE IF e2.den = 0 THEN TRUE
    ELSE Negative(e1.two * e2.den - e2.two * e1.den,
                  e1.three * e2.den - e2.three * e1.den)

\* a tryPartition whose haveNot holds only the types without the key
tryPartitionLacking(duckTypes, key) ==
    LET has(t) == In(key, t.properties)
        prop(t) == Get(t.properties, key)
        valued == SelectSeq(duckTypes, LAMBDA t : has(t) /\ prop(t).hasValue)
        values == Distinct([i \in 1..Len(valued) |-> prop(valued[i]).value])
        have == SelectSeq(duckTypes, LAMBDA t : has(t) /\ ~prop(t).hasValue)
        haveNot == SelectSeq(duckTypes, LAMBDA t : ~has(t))
        valueMap == [i \in 1..Len(values) |->
                       <<values[i],
                         SelectSeq(valued,
                                   LAMBDA t : prop(t).value = values[i])>>]
        sizes == <<Len(haveNot), Len(have)>>
                   \o [i \in 1..Len(valueMap) |->
                          Len(valueMap[i][2]) + Len(have)]
    IN [skip |-> Len(haveNot) = Len(duckTypes) /\ Len(have) = Len(duckTypes),
        key |-> key, haveNot |-> haveNot, haveWithoutSpecialValue |-> have,
        valueMap |-> valueMap, entropyAfter |-> entropyAfterPartitions(sizes)]

\* the partition tryPartition(key) computes
tryPartition(duckTypes, key) ==
    LET has(t) == In(key, t.properties)
        prop(t) == Get(t.properties, key)
        valued == SelectSeq(duckTypes, LAMBDA t : has(t) /\ prop(t).hasValue)
        values == Distinct([i \in 1..Len(valued) |-> prop(valued[i]).value])
        have == SelectSeq(duckTypes, LAMBDA t : has(t) /\ ~prop(t).hasValue)
        haveNot == SelectSeq(duckTypes,
                             LAMBDA t : ~has(t) \/ ~prop(t).required)
        valueMap == [i \in 1..Len(values) |->
                       <<values[i],
                         SelectSeq(valued,
                                   LAMBDA t : prop(t).value = values[i])>>]
        sizes == <<Len(haveNot), Len(have)>>
                   \o [i \in 1..Len(valueMap) |->
                          Len(valueMap[i][2]) + Len(have)]
    IN [skip |-> Len(haveNot) = Len(duckTypes) /\ Len(have) = Len(duckTypes),
        key |-> key, haveNot |-> haveNot, haveWithoutSpecialValue |-> have,
        valueMap |-> valueMap, entropyAfter |-> entropyAfterPartitions(sizes)]

NoPartition ==
    [skip |-> TRUE, key |-> "", haveNot |-> <<>>,
     haveWithoutSpecialValue |-> <<>>, valueMap |-> <<>>,
     entropyAfter |-> Infinity]

\* partitionOnRequiredKey(duckTypes, keys): the best partition so far
\* after trying keys in order; NoPartition when no key was taken
RECURSIVE partitionOnRequiredKey(_, _)
partitionOnRequiredKey(duckTypes, keys) ==
    IF keys = <<>> THEN NoPartition
    ELSE LET better(best, try) ==
                 IF ~try.skip /\ EntropyLess(try.entropyAfter, best.entropyAfter)
                 THEN try ELSE best
         IN better(partitionOnRequiredKey(duckTypes,
                                          SubSeq(keys, 1, Len(keys) - 1)),
                   tryPartition(duckTypes, keys[Len(keys)]))

\* partitionOnOptionalKeys(duckTypes, keys)
partitionOnOptionalKeys(duckTypes, keys) ==
    LET mayHave(key) == SelectSeq(duckTypes, LAMBDA t : In(key, t.properties))
        kept == SelectSeq(keys,
                          LAMBDA key : 2 * Len(mayHave(key)) <= Len(duckTypes))
        keyPartitionMap == [i \in 1..Len(kept) |-> <<kept[i], mayHave(kept[i])>>]
        sizes == [i \in 1..Len(kept) |-> Len(keyPartitionMap[i][2])]
                    \o <<Len(duckTypes)>>
    IN IF kept = <<>>
       THEN [entropyAfter |-> Infinity, keyPartitionMap |-> <<>>]
       ELSE [entropyAfter |-> entropyAfterPartitions(sizes),
             keyPartitionMap |-> keyPartitionMap]

Leaf(duckTypes) ==
    [kind |-> "leaf", count |-> Len(duckTypes), duckTypes |-> duckTypes]

\* new DTree(duckTypes, used, parent)
RECURSIVE DTree(_, _)
DTree(duckTypes, used) ==
    LET count == Len(duckTypes)
        onKey(req, used1) ==
            [kind |-> "key", count |-> count, key |-> req.key,
             haveNot |-> DTree(req.haveNot, used1),
             have |-> DTree(req.haveWithoutSpecialValue, used1),
             valueMap |->
                 [i \in 1..Len(req.valueMap) |->
                     <<req.valueMap[i][1],
                       DTree(req.valueMap[i][2]
                                 \o req.haveWithoutSpecialValue, used1)>>]]
        onMayHave(keyPartitionMap, newUsed) ==
            [kind |-> "may", count |-> count,
             mayHaveMap |->
                 [i \in 1..Len(keyPartitionMap) |->
                     <<keyPartitionMap[i][1],
                       DTree(keyPartitionMap[i][2], newUsed)>>],
             haveNone |-> DTree(duckTypes, newUsed)]
        \* reqInformationGain < optInformationGain is
        \* EntropyLess(opt.entropyAfter, req.entropyAfter)
        chosen(req, opt) ==
            IF ~req.skip
               /\ ~(opt.keyPartitionMap # <<>>
                    /\ EntropyLess(opt.entropyAfter, req.entropyAfter))
            THEN onKey(req, used \cup {req.key})
            ELSE IF opt.keyPartitionMap # <<>>
            THEN onMayHave(opt.keyPartitionMap,
                           used \cup Range(KeysOf(opt.keyPartitionMap)))
            ELSE Leaf(duckTypes)
        keyed(kk) ==
            chosen(partitionOnRequiredKey(
                       duckTypes, SelectSeq(kk[1], LAMBDA key : key \notin used)),
                   partitionOnOptionalKeys(
                       duckTypes, SelectSeq(kk[2], LAMBDA key : key \notin used)))
    IN IF count <= 1 THEN Leaf(duckTypes)
       ELSE keyed(keysForTypes(duckTypes))

\* a hunt that takes the have branch whatever value the key has
RECURSIVE duckHuntHave(_, _)
duckHuntHave(node, x) ==
    IF node.kind = "leaf" THEN [missing |-> FALSE, node |-> node]
    ELSE LET next ==
                IF node.kind = "may"
                THEN LET hits == SelectSeq(StringEntries(x),
                                     LAMBDA e : In(e[1], node.mayHaveMap))
                     IN IF hits = <<>> THEN node.haveNone
                        ELSE Get(node.mayHaveMap, hits[1][1])
                ELSE IF In(node.key, x) THEN node.have
                ELSE node.haveNot
         IN IF next.count = 0 THEN [missing |-> TRUE, node |-> next]
            ELSE duckHuntHave(next, x)

\* a hunt that finds a key in x only where x enumerates it first
RECURSIVE duckHuntFirstKey(_, _)
duckHuntFirstKey(node, x) ==
    IF node.kind = "leaf" THEN [missing |-> FALSE, node |-> node]
    ELSE LET first == IF StringEntries(x) = <<>> THEN <<>>
                      ELSE <<StringEntries(x)[1]>>
             next ==
                IF node.kind = "may"
                THEN LET hits == SelectSeq(first,
                                     LAMBDA e : In(e[1], node.mayHaveMap))
                     IN IF hits = <<>> THEN node.haveNone
                        ELSE Get(node.mayHaveMap, hits[1][1])
                ELSE IF In(node.key, first)
                THEN IF In(Get(x, node.key), node.valueMap)
                     THEN Get(node.valueMap, Get(x, node.key))
                     ELSE node.have
                ELSE node.haveNot
         IN IF next.count = 0 THEN [missing |-> TRUE, node |-> next]
            ELSE duckHuntFirstKey(next, x)

\* node.duckHunt(x) from the node `node': the leaf reached, or missing when
\* a node without types is entered
RECURSIVE duckHunt(_, _)
duckHunt(node, x) ==
    IF node.kind = "leaf" THEN [missing |-> FALSE, node |-> node]
    ELSE LET next ==
                IF node.kind = "may"
                THEN LET hits == SelectSeq(StringEntries(x),
                                     LAMBDA e : In(e[1], node.mayHaveMap))
                     IN IF hits = <<>> THEN node.haveNone
                        ELSE Get(node.mayHaveMap, hits[1][1])
                ELSE IF In(node.key, x)
                THEN IF In(Get(x, node.key), node.valueMap)
                     THEN Get(node.valueMap, Get(x, node.key))
                     ELSE node.have
                ELSE node.haveNot
         IN IF next.count = 0 THEN [missing |-> TRUE, node |-> next]
            ELSE duckHunt(next, x)

----------------------------------------------------------------------------
(* The functions the caller supplies, by name: the bodies of the           *)
(* toConstructorArguments, convert and classType functions of              *)
(* src/test/unduck.js.                                                     *)

NotApplicable == [k |-> "notApplicable", s |-> "", n |-> 0]
NotAnArray == [k |-> "notAnArray", s |-> "", n |-> 0]

\* /^tweet( \d+)?$/ on the strings the inputs use
SafeCanaryInput == {"tweet", "tweet 123", "tweet 999"}

\* the classes a class extends, itself included
Ancestors(cls) ==
    CASE cls \in {"Foo", "Bar"} -> {cls, "Base", "Object"}
      [] cls = "" -> {}
      [] OTHER -> {cls, "Object"}

\* classes whose constructor throws
ThrowingClasses == {"Bad"}

\* one call of a function of the caller, as the caller can observe it;
\* call is 0 for the call of the caller and 1 for a call a convert function
\* makes while the call of the caller is under way
Called(fn, type, key, value, props, c) ==
    [fn |-> fn, type |-> type, key |-> key, value |-> value, props |-> props,
     trusted |-> c.trusted, userContext |-> c.userContext, call |-> c.call]

\* rawConvert(value, trusted, userContext, notApplicable): [threw, value]
RawConvertResult(name, value, trusted) ==
    CASE name = "softConvert" ->
            [threw |-> FALSE,
             value |-> IF trusted THEN value
                       ELSE IF value.k = "string" /\ value.s \in SafeCanaryInput
                       THEN value ELSE Str("tweet 999")]
      [] name = "hardConvert" ->
            [threw |-> FALSE,
             value |-> IF trusted THEN value
                       ELSE IF value.k = "string" /\ value.s \in SafeCanaryInput
                       THEN value ELSE NotApplicable]
      \* (x) => Number(x + 1): '1' + 1 is '11'
      [] name = "increment" ->
            [threw |-> FALSE,
             value |-> IF value.k = "number" THEN Num(value.n + 1)
                       ELSE IF value = Str("1") THEN Num(11) ELSE value]
      [] name = "throwingConvert" -> [threw |-> TRUE, value |-> Undefined]
      [] OTHER -> [threw |-> FALSE, value |-> value]

\* typeof value
TypeOf(c, value) ==
    CASE value.k = "null" -> "object"
      [] value.k = "obj" -> "object"
      [] value.k = "ref" ->
            IF c.graph[value.n].kind = "fn" THEN "function" ELSE "object"
      [] OTHER -> value.k

\* the class of an object value; "" for a primitive
ClassOf(c, st, value) ==
    CASE value.k = "obj" -> st.heap[value.n].cls
      [] value.k = "ref" -> c.graph[value.n].cls
      [] value.k = "function" -> "Function"
      [] OTHER -> ""

\* value && value instanceof type
InstanceOf(c, st, value, type) == type.s \in Ancestors(ClassOf(c, st, value))

----------------------------------------------------------------------------
(* The processor: src/index.js, processor.                                 *)

Unvisited == [k |-> "unvisited", s |-> "", n |-> 0]
IN_PROGRESS_BREADCRUMB == [k |-> "inProgress", s |-> "", n |-> 0]

\* the state of one unduck call: unduckingMap, the objects made so far, and
\* the calls made to the functions of the caller
NewCall(c) ==
    [memo |-> [i \in 1..Len(c.graph) |-> Unvisited], heap |-> <<>>, log |-> <<>>]

Return(st, v) == [st |-> st, err |-> NoError, val |-> v]
Throw(st, e) == [st |-> st, err |-> e, val |-> Undefined]
Logged(st, call) == [st EXCEPT !.log = Append(@, call)]

RECURSIVE process(_, _, _)

\* a convert that hands the input value on whether trusted or not
convertUnreplaced(c, id, key, cv, value, st) ==
    LET guardFails ==
            IF cv.kind # "composed" THEN FALSE
            ELSE IF cv.requiresValue THEN cv.requiredValue # value
            ELSE IF cv.type = Null THEN FALSE
            ELSE IF cv.type.k = "string" THEN cv.type.s # TypeOf(c, value)
            ELSE ~InstanceOf(c, st, value, cv.type)
        returned(st1, raw) ==
            IF raw.threw THEN Throw(st1, Err("Error", "convert threw", key, ""))
            ELSE Return(st1, raw.value)
    IN IF guardFails THEN Return(st, NotApplicable)
       ELSE IF cv.rawConvert = Null THEN Return(st, value)
       ELSE returned(Logged(st, Called("convert", id, key, value, <<>>, c)),
                     RawConvertResult(cv.rawConvert.s, value, c.trusted))

\* a convert whose call of the pond shares the unduckingMap of the call
\* under way
convertSharedMap(c, id, key, cv, value, st) ==
    LET guardFails ==
            IF cv.kind # "composed" THEN FALSE
            ELSE IF cv.requiresValue THEN cv.requiredValue # value
            ELSE IF cv.type = Null THEN FALSE
            ELSE IF cv.type.k = "string" THEN cv.type.s # TypeOf(c, value)
            ELSE ~InstanceOf(c, st, value, cv.type)
        tvalue == IF cv.kind = "composed" /\ cv.requireTrusted /\ ~c.trusted
                  THEN cv.innocuous ELSE value
        returned(st1, raw) ==
            IF raw.threw THEN Throw(st1, Err("Error", "convert threw", key, ""))
            ELSE Return(st1, raw.value)
        reenter(st1) ==
            process([c EXCEPT !.trusted = FALSE, !.userContext = Undefined,
                              !.call = 1],
                    tvalue, st1)
        called(st1) ==
            IF cv.rawConvert.s = "reenter"
            THEN IF c.userContext = Undefined THEN Return(st1, tvalue)
                 ELSE reenter(st1)
            ELSE returned(st1,
                          RawConvertResult(cv.rawConvert.s, tvalue, c.trusted))
    IN IF guardFails THEN Return(st, NotApplicable)
       ELSE IF cv.rawConvert = Null THEN Return(st, tvalue)
       ELSE called(Logged(st, Called("convert", id, key, tvalue, <<>>, c)))

\* property.convert(value, trusted, userContext, notApplicable), where cv
\* is what makePropertyMetadata kept of the property
convert(c, id, key, cv, value, st) ==
    LET guardFails ==
            IF cv.kind # "composed" THEN FALSE
            ELSE IF cv.requiresValue THEN cv.requiredValue # value
            ELSE IF cv.type = Null THEN FALSE
            ELSE IF cv.type.k = "string" THEN cv.type.s # TypeOf(c, value)
            ELSE ~InstanceOf(c, st, value, cv.type)
        tvalue == IF cv.kind = "composed" /\ cv.requireTrusted /\ ~c.trusted
                  THEN cv.innocuous ELSE value
        returned(st1, raw) ==
            IF raw.threw THEN Throw(st1, Err("Error", "convert threw", key, ""))
            ELSE Return(st1, raw.value)
        \* (value, trusted, userContext) => (userContext ? ud(value) : value):
        \* a call of the pond made while this call is under way, with an
        \* unduckingMap of its own; the objects it makes and the calls it
        \* makes are kept, the unduckingMap of this call is as it was
        reentered(st1, r) == [r EXCEPT !.st.memo = st1.memo]
        reenter(st1) ==
            reentered(st1,
                      process([c EXCEPT !.trusted = FALSE,
                                        !.userContext = Undefined,
                                        !.call = 1],
                              tvalue, [st1 EXCEPT !.memo = NewCall(c).memo]))
        called(st1) ==
            IF cv.rawConvert.s = "reenter"
            THEN IF c.userContext = Undefined THEN Return(st1, tvalue)
                 ELSE reenter(st1)
            ELSE returned(st1,
                          RawConvertResult(cv.rawConvert.s, tvalue, c.trusted))
    IN IF guardFails THEN Return(st, NotApplicable)
       ELSE IF cv.rawConvert = Null THEN Return(st, tvalue)
       ELSE called(Logged(st, Called("convert", id, key, tvalue, <<>>, c)))

\* toConstructorArguments(scratchSpace, trusted, userContext): val is
\* Obj(i) of the array returned, or NotAnArray, which the call logged
\* keeps as its value
toConstructorArguments(c, duckType, scratchSpace, st) ==
    LET returned(r) ==
            IF r.err # NoError THEN r
            ELSE [r EXCEPT !.st.log[Len(r.st.log)].value = r.val]
        called(st1) ==
            LET array(args, extra) ==
                    Return([st1 EXCEPT !.heap = @ \o extra
                                \o <<[cls |-> "Array",
                                      props |-> [i \in 1..Len(args) |->
                                                   <<ToString(i - 1), args[i]>>]]>>],
                           Obj(Len(st1.heap) + Len(extra) + 1))
                args(name, forIn, x) ==
                    CASE name = "Array" ->
                            [a |-> <<Obj(Len(st1.heap) + 1), Bool(c.trusted),
                                     c.userContext>>,
                             e |-> <<[cls |-> "", props |-> scratchSpace]>>]
                      [] name = "millis" ->
                            [a |-> <<Get(scratchSpace, "millis")>>, e |-> <<>>]
                      [] name = "xAndTrusted" ->
                            [a |-> <<IF x = Undefined THEN Null ELSE x,
                                     Bool(c.trusted)>>, e |-> <<>>]
                      [] name = "xAndY" ->
                            [a |-> <<x, Get(scratchSpace, "y")>>, e |-> <<>>]
                      [] name = "xOnly" -> [a |-> <<x>>, e |-> <<>>]
                      [] name = "yOnly" ->
                            [a |-> <<Get(scratchSpace, "y")>>, e |-> <<>>]
                      [] name = "symbolAndX" ->
                            [a |-> <<Get(scratchSpace, "@s"), x>>, e |-> <<>>]
                      [] name = "oneOperator" /\ Len(forIn) = 1 ->
                            [a |-> <<Str(forIn[1][1]), forIn[1][2]>>, e |-> <<>>]
                      [] OTHER -> [a |-> <<>>, e |-> <<NotAnArray>>]
                built(name, r) ==
                    IF name = "throwingArguments"
                    THEN Throw(st1, Err("Error", "toConstructorArguments threw",
                                        "", ""))
                    ELSE IF r.e = <<NotAnArray>> THEN Return(st1, NotAnArray)
                    ELSE array(r.a, r.e)
            IN built(duckType.toConstructorArguments.s,
                     args(duckType.toConstructorArguments.s,
                          StringEntries(scratchSpace), Get(scratchSpace, "x")))
    IN returned(called(Logged(st, Called("toConstructorArguments",
                                         duckType.id, "", Undefined,
                                         scratchSpace, c))))

\* new ClassType(...applicableConstructorArgs)
construct(c, duckType, args, st) ==
    LET called(st1) ==
            IF duckType.classType.s \in ThrowingClasses
            THEN Throw(st1, Err("FooError", "BOO!", duckType.classType.s, ""))
            ELSE Return([st1 EXCEPT !.heap =
                            Append(@, [cls |-> duckType.classType.s,
                                       props |-> st1.heap[args.n].props])],
                        Obj(Len(st1.heap) + 1))
    IN called(Logged(st, Called("new", duckType.id, "", args, <<>>, c)))

RECURSIVE recurseLoop(_, _, _, _, _)
RECURSIVE applyLoop(_, _, _, _, _, _, _)
RECURSIVE processArrayLoop(_, _, _, _, _)

\* what a failed candidate does with its failure (report): thrown when
\* failFast, pushed on suppressedErrors when an error trace is collected,
\* dropped otherwise
Failure(msg, duckType, key) == Err("MissingDuckError", msg, duckType.id, key)

NoScratch(st, failure, failFast) ==
    [st |-> st, err |-> IF failFast THEN failure ELSE NoError,
     scratchSpace |-> <<>>, isNull |-> TRUE, failure |-> failure]

\* an exception that leaves applyOneDuckType
Thrown(st, err) ==
    [st |-> st, err |-> err, scratchSpace |-> <<>>, isNull |-> TRUE,
     failure |-> NoError]

\* array.toString() used as a property key: the keys joined by commas
RECURSIVE JoinKeys(_)
JoinKeys(keys) ==
    IF Len(keys) = 1 THEN keys[1]
    ELSE keys[1] \o "," \o JoinKeys(Tail(keys))

\* duckType.properties[defaultKeys].default: the array defaultKeys is the
\* property key, so it is converted to a string, which a symbol among the
\* keys cannot be; and reading .default of no property throws as well
DefaultLookup(duckType) ==
    LET found(properties, joined) ==
            IF ~In(joined, properties)
            THEN [threw |-> TRUE, value |-> Undefined]
            ELSE LET property == Get(properties, joined)
                 IN [threw |-> FALSE,
                     value |-> IF property.hasDefault THEN property.default
                               ELSE Undefined]
    IN IF \E i \in 1..Len(duckType.defaultKeys) :
             IsSymbol(duckType.defaultKeys[i])
       THEN [threw |-> TRUE, value |-> Undefined]
       ELSE found(duckType.properties, JoinKeys(duckType.defaultKeys))

\* a loop that recursively unducks the value of every property of the
\* description, whatever its recurse flag
RECURSIVE recurseLoopEvery(_, _, _, _, _)
recurseLoopEvery(c, duckType, i, scratchSpace, st) ==
    LET keys == KeysOf(duckType.properties)
        processed(recKey, r) ==
            IF r.err # NoError
            THEN [st |-> r.st, err |-> r.err, scratchSpace |-> scratchSpace]
            ELSE recurseLoopEvery(c, duckType, i + 1,
                                  Put(scratchSpace, recKey, r.val), r.st)
    IN IF i > Len(keys)
       THEN [st |-> st, err |-> NoError, scratchSpace |-> scratchSpace]
       ELSE IF ~In(keys[i], scratchSpace)
       THEN recurseLoopEvery(c, duckType, i + 1, scratchSpace, st)
       ELSE processed(keys[i], process(c, Get(scratchSpace, keys[i]), st))

\* the loop over recurseToKeys from index i
recurseLoop(c, duckType, i, scratchSpace, st) ==
    LET processed(recKey, r) ==
            IF r.err # NoError
            THEN [st |-> r.st, err |-> r.err, scratchSpace |-> scratchSpace]
            ELSE recurseLoop(c, duckType, i + 1,
                             Put(scratchSpace, recKey, r.val), r.st)
    IN IF i > Len(duckType.recurseToKeys)
       THEN [st |-> st, err |-> NoError, scratchSpace |-> scratchSpace]
       ELSE IF ~In(duckType.recurseToKeys[i], scratchSpace)
       THEN recurseLoop(c, duckType, i + 1, scratchSpace, st)
       ELSE processed(duckType.recurseToKeys[i],
                      process(c, Get(scratchSpace, duckType.recurseToKeys[i]),
                              st))

\* the loop over defaultKeys: the scratch space with the defaults, or the
\* TypeError of the lookup
RECURSIVE defaultLoop(_, _, _)
defaultLoop(duckType, i, scratchSpace) ==
    LET looked(key, d) ==
            IF d.threw THEN [threw |-> TRUE, scratchSpace |-> scratchSpace]
            ELSE defaultLoop(duckType, i + 1, Put(scratchSpace, key, d.value))
    IN IF i > Len(duckType.defaultKeys)
       THEN [threw |-> FALSE, scratchSpace |-> scratchSpace]
       ELSE IF In(duckType.defaultKeys[i], scratchSpace)
       THEN defaultLoop(duckType, i + 1, scratchSpace)
       ELSE looked(duckType.defaultKeys[i], DefaultLookup(duckType))

\* the loop over convertKeys from index i
RECURSIVE convertLoop(_, _, _, _, _)
convertLoop(c, duckType, i, scratchSpace, st) ==
    LET converted(key, r) ==
            IF r.err # NoError
            THEN [st |-> r.st, err |-> r.err, scratchSpace |-> scratchSpace,
                  failedKey |-> ""]
            ELSE IF r.val = NotApplicable
            THEN [st |-> r.st, err |-> NoError, scratchSpace |-> scratchSpace,
                  failedKey |-> key]
            ELSE convertLoop(c, duckType, i + 1,
                             Put(scratchSpace, key, r.val), r.st)
        converting(key) ==
            converted(key, convert(c, duckType.id, key,
                                   Get(duckType.properties, key).convert,
                                   Get(scratchSpace, key), st))
    IN IF i > Len(duckType.convertKeys)
       THEN [st |-> st, err |-> NoError, scratchSpace |-> scratchSpace,
             failedKey |-> ""]
       ELSE IF ~In(duckType.convertKeys[i], scratchSpace)
       THEN convertLoop(c, duckType, i + 1, scratchSpace, st)
       ELSE converting(duckType.convertKeys[i])

\* an applyOneDuckType that takes whatever recursively unducking a value
\* throws for the failure of the candidate
applyOneDuckTypeForgiving(c, duckType, unchained, failFast, st) ==
    LET converted(cnv) ==
            IF cnv.err # NoError THEN Thrown(cnv.st, cnv.err)
            ELSE IF cnv.failedKey # ""
            THEN NoScratch(cnv.st, Failure("Failed to convert property",
                                           duckType, cnv.failedKey), failFast)
            ELSE [st |-> cnv.st, err |-> NoError,
                  scratchSpace |-> cnv.scratchSpace, isNull |-> FALSE,
                  failure |-> NoError]
        defaulted(st1, def) ==
            IF def.threw
            THEN Thrown(st1, Err("TypeError", "Cannot read property 'default'",
                                 duckType.id, ""))
            ELSE converted(convertLoop(c, duckType, 1, def.scratchSpace, st1))
        recursed(rec) ==
            IF rec.err = NoError
            THEN defaulted(rec.st, defaultLoop(duckType, 1, rec.scratchSpace))
            ELSE IF ~failFast
            THEN NoScratch(rec.st, rec.err, FALSE)
            ELSE Thrown(rec.st, rec.err)
        checked(disallowed, absent) ==
            IF disallowed # <<>>
            THEN NoScratch(st, Failure("does not allow key", duckType,
                                       disallowed[1]), failFast)
            ELSE IF absent # <<>>
            THEN NoScratch(st, Failure("Input does not have key", duckType,
                                       absent[1]), failFast)
            ELSE recursed(recurseLoop(c, duckType, 1, unchained, st))
    IN checked(SelectSeq(KeysOf(StringEntries(unchained)),
                         LAMBDA key : ~In(key, duckType.properties)),
               SelectSeq(duckType.requiredKeys,
                         LAMBDA key : ~In(key, unchained)))

\* an applyOneDuckType that applies the defaults and converts the properties
\* before it recursively unducks their values
applyOneDuckTypeConvertFirst(c, duckType, unchained, failFast, st) ==
    LET recursed(rec) ==
            IF rec.err = NoError
            THEN [st |-> rec.st, err |-> NoError,
                  scratchSpace |-> rec.scratchSpace, isNull |-> FALSE,
                  failure |-> NoError]
            ELSE IF ~failFast /\ rec.err.kind = "MissingDuckError"
            THEN NoScratch(rec.st, rec.err, FALSE)
            ELSE Thrown(rec.st, rec.err)
        converted(cnv) ==
            IF cnv.err # NoError THEN Thrown(cnv.st, cnv.err)
            ELSE IF cnv.failedKey # ""
            THEN NoScratch(cnv.st, Failure("Failed to convert property",
                                           duckType, cnv.failedKey), failFast)
            ELSE recursed(recurseLoop(c, duckType, 1, cnv.scratchSpace, cnv.st))
        defaulted(def) ==
            IF def.threw
            THEN Thrown(st, Err("TypeError", "Cannot read property 'default'",
                                duckType.id, ""))
            ELSE converted(convertLoop(c, duckType, 1, def.scratchSpace, st))
        checked(disallowed, absent) ==
            IF disallowed # <<>>
            THEN NoScratch(st, Failure("does not allow key", duckType,
                                       disallowed[1]), failFast)
            ELSE IF absent # <<>>
            THEN NoScratch(st, Failure("Input does not have key", duckType,
                                       absent[1]), failFast)
            ELSE defaulted(defaultLoop(duckType, 1, unchained))
    IN checked(SelectSeq(KeysOf(StringEntries(unchained)),
                         LAMBDA key : ~In(key, duckType.properties)),
               SelectSeq(duckType.requiredKeys,
                         LAMBDA key : ~In(key, unchained)))

\* applyOneDuckType(duckType, unchained, report, failFast)
applyOneDuckType(c, duckType, unchained, failFast, st) ==
    LET converted(cnv) ==
            IF cnv.err # NoError THEN Thrown(cnv.st, cnv.err)
            ELSE IF cnv.failedKey # ""
            THEN NoScratch(cnv.st, Failure("Failed to convert property",
                                           duckType, cnv.failedKey), failFast)
            ELSE [st |-> cnv.st, err |-> NoError,
                  scratchSpace |-> cnv.scratchSpace, isNull |-> FALSE,
                  failure |-> NoError]
        defaulted(st1, def) ==
            IF def.threw
            THEN Thrown(st1, Err("TypeError", "Cannot read property 'default'",
                                 duckType.id, ""))
            ELSE converted(convertLoop(c, duckType, 1, def.scratchSpace, st1))
        recursed(rec) ==
            IF rec.err = NoError
            THEN defaulted(rec.st, defaultLoop(duckType, 1, rec.scratchSpace))
            ELSE IF ~failFast /\ rec.err.kind = "MissingDuckError"
            THEN NoScratch(rec.st, rec.err, FALSE)
            ELSE Thrown(rec.st, rec.err)
        \* for (const key in scratchSpace): the string keys
        checked(disallowed, absent) ==
            IF disallowed # <<>>
            THEN NoScratch(st, Failure("does not allow key", duckType,
                                       disallowed[1]), failFast)
            ELSE IF absent # <<>>
            THEN NoScratch(st, Failure("Input does not have key", duckType,
                                       absent[1]), failFast)
            ELSE recursed(recurseLoop(c, duckType, 1, unchained, st))
    IN checked(SelectSeq(KeysOf(StringEntries(unchained)),
                         LAMBDA key : ~In(key, duckType.properties)),
               SelectSeq(duckType.requiredKeys,
                         LAMBDA key : ~In(key, unchained)))

\* the loop of tentativelyApplyDuckTypes over node.types() from index i;
\* applicable holds <<applicableDuckType, applicableConstructorArgs>> once
\* a type applied, suppressedErrors the failures reported so far
applyLoop(c, node, i, unchained, collectErrorTrace, acc, st) ==
    LET stop(st1, err) ==
            [st |-> st1, err |-> err, applicable |-> acc.applicable,
             suppressedErrors |-> acc.suppressedErrors]
        \* report(duckType, failure) when it does not throw, and continue
        continue(failure, st1) ==
            applyLoop(c, node, i + 1, unchained, collectErrorTrace,
                      IF collectErrorTrace /\ node.count # 1
                      THEN [acc EXCEPT !.suppressedErrors = Append(@, failure)]
                      ELSE acc,
                      st1)
        argued(duckType, args) ==
            IF args.err # NoError THEN stop(args.st, args.err)
            ELSE IF args.val = NotAnArray
            THEN IF node.count = 1
                 THEN stop(args.st,
                           Failure("Failed to compute constructor arguments",
                                   duckType, ""))
                 ELSE continue(Failure("Failed to compute constructor arguments",
                                       duckType, ""), args.st)
            ELSE IF acc.applicable # <<>>
            THEN stop(args.st,
                      Err("DuckError",
                          "Duck hunt found multiple applicable types",
                          acc.applicable[1].id, duckType.id))
            ELSE applyLoop(c, node, i + 1, unchained, collectErrorTrace,
                           [acc EXCEPT !.applicable = <<duckType, args.val>>],
                           args.st)
        applied(duckType, one) ==
            IF one.err # NoError THEN stop(one.st, one.err)
            ELSE IF one.isNull THEN continue(one.failure, one.st)
            ELSE argued(duckType,
                        toConstructorArguments(c, duckType, one.scratchSpace,
                                               one.st))
    IN IF i > Len(node.duckTypes) THEN stop(st, NoError)
       ELSE applied(node.duckTypes[i],
                    applyOneDuckType(c, node.duckTypes[i], unchained,
                                     node.count = 1, st))

\* tentativelyApplyDuckTypes(node, unchained, collectErrorTrace)
tentativelyApplyDuckTypes(c, node, unchained, collectErrorTrace, st) ==
    applyLoop(c, node, 1, unchained, collectErrorTrace,
              [applicable |-> <<>>, suppressedErrors |-> <<>>], st)

\* the loop of processArray over the own keys from index i; the array made
\* is st.heap[slot]
processArrayLoop(c, entries, i, slot, st) ==
    LET processed(r) ==
            IF r.err # NoError THEN r
            ELSE processArrayLoop(c, entries, i + 1, slot,
                    [r.st EXCEPT !.heap[slot].props =
                                    Put(@, entries[i][1], r.val)])
    IN IF i > Len(entries) THEN Return(st, Obj(slot))
       ELSE processed(process(c, entries[i][2], st))

\* processArray without its second loop, the one over the symbol keys
processArrayStrings(c, x, st) ==
    LET copy(own) ==
            processArrayLoop(c,
                SelectSeq(StringEntries(own),
                          LAMBDA e : e[1] # "__proto__" /\ e[1] # "length"),
                1, Len(st.heap) + 1,
                [st EXCEPT !.heap =
                    Append(@, [cls |-> "Array", props |-> <<>>])])
    IN copy(c.graph[x.n].props)

\* processArray(x)
processArray(c, x, st) ==
    LET copy(own) ==
            processArrayLoop(c,
                SelectSeq(StringEntries(own),
                          LAMBDA e : e[1] # "__proto__" /\ e[1] # "length")
                  \o SymbolEntries(own),
                1, Len(st.heap) + 1,
                [st EXCEPT !.heap =
                    Append(@, [cls |-> "Array", props |-> <<>>])])
    IN copy(c.graph[x.n].props)

\* the copy processPojo makes of the own properties of x
Unchained(c, x) ==
    LET copy(own) ==
            SelectSeq(StringEntries(own), LAMBDA e : e[1] # "__proto__")
              \o SymbolEntries(own)
    IN copy(c.graph[x.n].props)

\* processPojo(x)
processPojo(c, x, st) ==
    LET \* new MissingDuckError({ errorMessage: null, toString() { ... } }):
        \* the constructor of an error converts the message it is given to
        \* a string, so toString() runs where the error is made, and in it
        \* tentativelyApplyDuckTypes(node, unchained, true); what that
        \* throws leaves processPojo in place of the MissingDuckError
        described(again) ==
            IF again.err # NoError THEN Throw(again.st, again.err)
            ELSE Throw(again.st, Err("MissingDuckError", "", "", ""))
        tried(node, unchained, t) ==
            IF t.err # NoError THEN Throw(t.st, t.err)
            ELSE IF t.applicable = <<>>
            THEN described(tentativelyApplyDuckTypes(c, node, unchained,
                                                     TRUE, t.st))
            ELSE construct(c, t.applicable[1], t.applicable[2], t.st)
        hunted(unchained, hunt) ==
            IF hunt.missing
            THEN Throw(st, Err("MissingDuckError", "Could not find duck type",
                               "", ""))
            ELSE tried(hunt.node, unchained,
                       tentativelyApplyDuckTypes(c, hunt.node, unchained,
                                                 FALSE, st))
        copied(unchained) == hunted(unchained, duckHunt(c.root, unchained))
    IN copied(Unchained(c, x))

\* a process that does not look up the values it has finished
processAgain(c, x, st) ==
    LET made(r) ==
            IF r.err # NoError THEN r
            ELSE [r EXCEPT !.st.memo[x.n] = r.val]
        visit(st1) ==
            IF c.graph[x.n].kind = "array"
            THEN made(processArray(c, x, st1))
            ELSE made(processPojo(c, x, st1))
    IN IF x.k # "ref" \/ c.graph[x.n].kind \notin {"pojo", "array"}
       THEN Return(st, x)
       ELSE IF st.memo[x.n] = IN_PROGRESS_BREADCRUMB
       THEN Throw(st, Err("DuckError", "Duck hunt cycle", "", ""))
       ELSE visit([st EXCEPT !.memo[x.n] = IN_PROGRESS_BREADCRUMB])

\* a process that hands back the value it re-enters instead of throwing
processUnrolled(c, x, st) ==
    LET made(r) ==
            IF r.err # NoError THEN r
            ELSE [r EXCEPT !.st.memo[x.n] = r.val]
        visit(st1) ==
            IF c.graph[x.n].kind = "array"
            THEN made(processArray(c, x, st1))
            ELSE made(processPojo(c, x, st1))
    IN IF x.k # "ref" \/ c.graph[x.n].kind \notin {"pojo", "array"}
       THEN Return(st, x)
       ELSE IF st.memo[x.n] = IN_PROGRESS_BREADCRUMB
       THEN Return(st, x)
       ELSE IF st.memo[x.n] # Unvisited
       THEN Return(st, st.memo[x.n])
       ELSE visit([st EXCEPT !.memo[x.n] = IN_PROGRESS_BREADCRUMB])

\* a process that takes a class instance for a bag of properties
processInstances(c, x, st) ==
    LET made(r) ==
            IF r.err # NoError THEN r
            ELSE [r EXCEPT !.st.memo[x.n] = r.val]
        visit(st1) ==
            IF c.graph[x.n].kind = "array"
            THEN made(processArray(c, x, st1))
            ELSE made(processPojo(c, x, st1))
    IN IF x.k # "ref" \/ c.graph[x.n].kind \notin {"pojo", "array", "inst"}
       THEN Return(st, x)
       ELSE IF st.memo[x.n] = IN_PROGRESS_BREADCRUMB
       THEN Throw(st, Err("DuckError", "Duck hunt cycle", "", ""))
       ELSE IF st.memo[x.n] # Unvisited
       THEN Return(st, st.memo[x.n])
       ELSE visit([st EXCEPT !.memo[x.n] = IN_PROGRESS_BREADCRUMB])

\* process(x)
process(c, x, st) ==
    LET made(r) ==
            IF r.err # NoError THEN r
            ELSE [r EXCEPT !.st.memo[x.n] = r.val]
        visit(st1) ==
            IF c.graph[x.n].kind = "array"
            THEN made(processArray(c, x, st1))
            ELSE made(processPojo(c, x, st1))
    IN IF x.k # "ref" \/ c.graph[x.n].kind \notin {"pojo", "array"}
       THEN Return(st, x)
       ELSE IF st.memo[x.n] = IN_PROGRESS_BREADCRUMB
       THEN Throw(st, Err("DuckError", "Duck hunt cycle", "", ""))
       ELSE IF st.memo[x.n] # Unvisited
       THEN Return(st, st.memo[x.n])
       ELSE visit([st EXCEPT !.memo[x.n] = IN_PROGRESS_BREADCRUMB])

----------------------------------------------------------------------------
(* Duck ponds: src/index.js, makePond.                                     *)

NoRoot == [kind |-> "none", count |-> 0]

\* makePond(duckTypes)
makePond(duckTypes) ==
    [duckTypes |-> duckTypes, root |-> NoRoot, metadataMap |-> <<>>]

\* duckTypes.map(metadataMaker) from index i: the cache afterwards and the
\* first error thrown
RECURSIVE mapMetadataMaker(_, _, _, _)
mapMetadataMaker(metadataMap, raws, ids, i) ==
    IF i > Len(ids) THEN [err |-> NoError, map |-> metadataMap]
    ELSE LET m == makeMetadata(metadataMap, ids[i], raws[ids[i]])
         IN IF m.err # NoError THEN m
            ELSE mapMetadataMaker(m.map, raws, ids, i + 1)

\* a getRoot that normalizes the descriptions and builds the tree on every
\* call
getRootAfresh(pond, raws) ==
    LET normalized(ids, m) ==
            IF m.err # NoError
            THEN [err |-> m.err, pond |-> [pond EXCEPT !.metadataMap = m.map]]
            ELSE [err |-> NoError,
                  pond |-> [pond EXCEPT
                      !.metadataMap = m.map,
                      !.root = DTree([i \in 1..Len(ids) |-> Get(m.map, ids[i])],
                                     {})]]
        deduped(ids) == normalized(ids, mapMetadataMaker(<<>>, raws, ids, 1))
    IN deduped(Distinct(pond.duckTypes))

\* getRoot() of pond: the pond afterwards, and the error thrown if a
\* description no longer passes the checks
getRoot(pond, raws) ==
    LET normalized(ids, m) ==
            IF m.err # NoError
            THEN [err |-> m.err, pond |-> [pond EXCEPT !.metadataMap = m.map]]
            ELSE [err |-> NoError,
                  pond |-> [pond EXCEPT
                      !.metadataMap = m.map,
                      !.root = DTree([i \in 1..Len(ids) |-> Get(m.map, ids[i])],
                                     {})]]
        deduped(ids) ==
            normalized(ids, mapMetadataMaker(pond.metadataMap, raws, ids, 1))
    IN IF pond.root # NoRoot THEN [err |-> NoError, pond |-> pond]
       ELSE deduped(Distinct(pond.duckTypes))

\* an unduck that makes its processor without the user context
unduckWithoutContext(pond, raws, trusted, graph, x, userContext) ==
    LET processed(g, r) ==
            [pond |-> g.pond, err |-> r.err, val |-> r.val, st |-> r.st]
        rooted(g, c) ==
            IF g.err # NoError
            THEN [pond |-> g.pond, err |-> g.err, val |-> Undefined,
                  st |-> NewCall(c)]
            ELSE processed(g, process(c, x, NewCall(c)))
        got(g) ==
            rooted(g, [trusted |-> trusted, root |-> g.pond.root,
                       userContext |-> Undefined, graph |-> graph,
                       call |-> 0])
    IN got(getRoot(pond, raws))

\* unduck(x, userContext) and unduck.trust(x, userContext) on pond: the
\* pond afterwards and what the call returned or threw
unduck(pond, raws, trusted, graph, x, userContext) ==
    LET processed(g, r) ==
            [pond |-> g.pond, err |-> r.err, val |-> r.val, st |-> r.st]
        rooted(g, c) ==
            IF g.err # NoError
            THEN [pond |-> g.pond, err |-> g.err, val |-> Undefined,
                  st |-> NewCall(c)]
            ELSE processed(g, process(c, x, NewCall(c)))
        got(g) ==
            rooted(g, [trusted |-> trusted, root |-> g.pond.root,
                       userContext |-> userContext, graph |-> graph,
                       call |-> 0])
    IN got(getRoot(pond, raws))

\* a withTypes that adds the descriptions to the pond it is called on too
withTypesInPlace(pond, raws, moreDuckTypes) ==
    LET checked(m) ==
            [pond |-> [pond EXCEPT
                          !.metadataMap = m.map,
                          !.duckTypes = IF m.err = NoError
                                        THEN Distinct(@ \o moreDuckTypes)
                                        ELSE @],
             err |-> m.err,
             duckTypes |-> Distinct(pond.duckTypes \o moreDuckTypes)]
    IN checked(mapMetadataMaker(pond.metadataMap, raws, moreDuckTypes, 1))

\* pond.withTypes(...moreDuckTypes): the pond afterwards, the error thrown,
\* and the duck types of the pond returned
withTypes(pond, raws, moreDuckTypes) ==
    LET checked(m) ==
            [pond |-> [pond EXCEPT !.metadataMap = m.map], err |-> m.err,
             duckTypes |-> Distinct(pond.duckTypes \o moreDuckTypes)]
    IN checked(mapMetadataMaker(pond.metadataMap, raws, moreDuckTypes, 1))

----------------------------------------------------------------------------
(* The callers: the duck type descriptions and the inputs of               *)
(* src/test/unduck.js, and some more.                                      *)

Properties(props) == [k |-> "object", props |-> props]

Description(class, builder, props) ==
    [classType |-> Fn(class),
     toConstructorArguments |-> Fn(builder),
     properties |-> Properties(props)]

\* the property descriptor {}
NoFields == [none |-> Undefined]

\* the duck type description a caller writes under the name id
RawShape(id) ==
    CASE id = "dateType" ->
            Description("Date", "millis",
                << <<"type", [value |-> Str("Date")]>>,
                   <<"millis", [type |-> Str("number")]>> >>)
      [] id = "typeA" -> Description("TypA", "Array", << <<"x", NoFields>> >>)
      [] id = "typeB" -> Description("TypB", "Array", << <<"x", NoFields>> >>)
      \* trusted properties
      [] id = "optional" ->
            Description("Sensitive", "xAndTrusted",
                << <<"x", [trusted |-> Bool(TRUE), required |-> Bool(FALSE),
                           default |-> Str("tweet")]>> >>)
      [] id = "noFallback" ->
            Description("Sensitive", "xAndTrusted",
                << <<"x", [trusted |-> Bool(TRUE)]>> >>)
      [] id = "withFallback" ->
            Description("Sensitive", "xAndTrusted",
                << <<"x", [trusted |-> Bool(TRUE),
                           innocuous |-> Str("tweet")]>> >>)
      [] id = "softFallback" ->
            Description("Sensitive", "xAndTrusted",
                << <<"x", [innocuous |-> Str("tweet"),
                           convert |-> Fn("softConvert")]>> >>)
      \* defaults
      [] id = "defaultX" ->
            Description("Point", "xAndY",
                << <<"x", [default |-> Num(7)]>>,
                   <<"y", [required |-> Bool(FALSE)]>> >>)
      [] id = "defaultXY" ->
            Description("Point", "xAndY",
                << <<"x", [default |-> Num(7)]>>,
                   <<"y", [default |-> Num(8)]>> >>)
      [] id = "defaultSymbol" ->
            Description("Point", "symbolAndX",
                << <<"x", [required |-> Bool(FALSE)]>>,
                   <<"@s", [default |-> Num(9)]>> >>)
      [] id = "defaultConvert" ->
            Description("Point", "xAndY",
                << <<"x", [default |-> Num(7), convert |-> Fn("increment")]>>,
                   <<"y", [required |-> Bool(FALSE)]>> >>)
      \* ugly duck types
      [] id = "empty" -> [none |-> Undefined]
      [] id = "noClassType" ->
            [properties |-> Properties(<<>>),
             toConstructorArguments |-> Fn("Array")]
      [] id = "classTypeNotFunction" ->
            [classType |-> [k |-> "object", s |-> "", n |-> 0],
             properties |-> Properties(<<>>),
             toConstructorArguments |-> Fn("Array")]
      [] id = "noToConstructorArguments" ->
            [classType |-> Fn("C"), properties |-> Properties(<<>>)]
      [] id = "toConstructorArgumentsNotFunction" ->
            [classType |-> Fn("C"), properties |-> Properties(<<>>),
             toConstructorArguments |-> [k |-> "object", s |-> "", n |-> 0]]
      [] id = "noProperties" ->
            [classType |-> Fn("C"), toConstructorArguments |-> Fn("Array")]
      [] id = "propertiesFalse" ->
            [classType |-> Fn("C"), properties |-> Bool(FALSE),
             toConstructorArguments |-> Fn("Array")]
      [] id = "propertiesNull" ->
            [classType |-> Fn("C"), properties |-> Null,
             toConstructorArguments |-> Fn("Array")]
      [] id = "protoProperties" ->
            Description("C", "Array",
                << <<"x", NoFields>>, <<"__proto__", NoFields>> >>)
      \* a description the caller gives a property __proto__ later
      [] id = "plain" -> Description("Plain", "Array", << <<"x", NoFields>> >>)
      \* converter order
      [] id = "numberPlusOne" ->
            Description("Conv", "Array",
                << <<"x", [type |-> Str("number"),
                           convert |-> Fn("increment")]>> >>)
      [] id = "stringPlusOne" ->
            Description("ConvS", "Array",
                << <<"x", [type |-> Str("string"),
                           convert |-> Fn("increment")]>> >>)
      [] id = "literalAndType" ->
            Description("Literal", "Array",
                << <<"x", [value |-> Str("1"), type |-> Str("number"),
                           convert |-> Fn("increment")]>> >>)
      \* constructor that throws during recursive invocation, and a convert
      \* and a toConstructorArguments that throw
      [] id = "badType" -> Description("Bad", "Array", << <<"x", NoFields>> >>)
      [] id = "goodType" -> Description("Good", "yOnly", << <<"y", NoFields>> >>)
      [] id = "opaqueY" ->
            Description("OpaqueY", "Array",
                << <<"y", [recurse |-> Bool(FALSE)]>> >>)
      [] id = "badConvert" ->
            Description("Z", "Array",
                << <<"z", [convert |-> Fn("throwingConvert")]>> >>)
      [] id = "badArguments" ->
            Description("W", "throwingArguments", << <<"w", NoFields>> >>)
      \* userContext
      [] id = "ctxType" ->
            Description("Ctx", "xOnly",
                << <<"x", [convert |-> Fn("logConvert"),
                           required |-> Bool(FALSE)]>> >>)
      \* a description whose convert calls the pond again
      [] id = "holder" ->
            Description("Holder", "Array",
                << <<"a", NoFields>>,
                   <<"b", [recurse |-> Bool(FALSE),
                           convert |-> Fn("reenter")]>> >>)
      \* bad toConstructorArgs out of 2: toConstructorArguments returns
      \* Number(x), which is no array, or throws 'Should not be called'
      [] id = "numberArgs" ->
            Description("Date", "numberOfMillis", << <<"millis", NoFields>> >>)
      [] id = "typedC" ->
            Description("C", "throwingArguments",
                << <<"millis", [type |-> Str("number")]>> >>)
      [] id = "loggedArgs" ->
            Description("Logged", "numberOfMillis",
                << <<"millis", [convert |-> Fn("logConvert")]>> >>)
      \* sentinel values not unducked: x: { value: sentinel }, where
      \* sentinel = {} is the second object of the inputs that hold it
      [] id = "hasSentinel" ->
            Description("HasSentinel", "Array",
                << <<"x", [value |-> Ref(2)]>> >>)
      [] id = "emptyType" -> Description("Empty", "Array", <<>>)
      [] id = "recursedSentinel" ->
            Description("Recursed", "Array",
                << <<"x", [value |-> Ref(2), recurse |-> Bool(TRUE)]>> >>)
      \* special value ambiguity
      [] id = "valueA" ->
            Description("TypeA", "Array", << <<"x", [value |-> Str("a")]>> >>)
      [] id = "valueB" ->
            Description("TypeB", "Array", << <<"x", [value |-> Str("b")]>> >>)
      [] id = "optionalE" ->
            Description("TypeE", "Array",
                << <<"x", [default |-> Str("e")]>>, <<"y", NoFields>> >>)
      \* two properties with a convert, y declared before x
      [] id = "pair" ->
            Description("Pair", "xAndY",
                << <<"y", [convert |-> Fn("increment")]>>,
                   <<"x", [convert |-> Fn("increment")]>> >>)
      \* sparse heterogeneous: operators with optional operands
      [] id = "unaryOperator" ->
            Description("UnaryOperator", "oneOperator",
                << <<"$neg", [required |-> Bool(FALSE)]>>,
                   <<"$inv", [required |-> Bool(FALSE)]>> >>)
      [] id = "arithOperator" ->
            Description("ArithOperator", "oneOperator",
                << <<"$add", [required |-> Bool(FALSE), type |-> Fn("Array")]>>,
                   <<"$sub", [required |-> Bool(FALSE), type |-> Fn("Array")]>> >>)
      [] id = "strOperator" ->
            Description("StrOperator", "oneOperator",
                << <<"$cat", [required |-> Bool(FALSE), type |-> Fn("Array")]>>,
                   <<"$sub", [required |-> Bool(FALSE), type |-> Fn("Array")]>> >>)
      \* three candidates for one bag, the last of which does not recurse
      [] id = "wrapA" -> Description("WrapA", "Array", << <<"x", NoFields>> >>)
      [] id = "wrapB" -> Description("WrapB", "Array", << <<"x", NoFields>> >>)
      [] id = "opaque" ->
            Description("Opaque", "Array",
                << <<"x", [recurse |-> Bool(FALSE)]>> >>)

\* the description a caller turns RawShape(id) into after registering it
Mutated(id) ==
    CASE id = "dateType" ->
            Description("Date", "millis",
                << <<"type", [value |-> Str("Date")]>>,
                   <<"millis", [type |-> Str("string")]>> >>)
      [] id = "typeA" ->
            Description("TypA", "Array",
                << <<"x", [type |-> Str("string")]>> >>)
      [] id = "plain" ->
            Description("Plain", "Array",
                << <<"x", NoFields>>, <<"__proto__", NoFields>> >>)

\* an object of the caller
Pojo(props) == [kind |-> "pojo", cls |-> "Object", props |-> props]
\* an array: getOwnPropertyNames gives its indices, then length, then its
\* other string keys
ArrayWith(items, length, more) ==
    [kind |-> "array", cls |-> "Array",
     props |-> [i \in 1..Len(items) |-> <<ToString(i - 1), items[i]>>]
                 \o << <<"length", Num(length)>> >> \o more]
Array(items) == ArrayWith(items, Len(items), <<>>)
Instance(cls, props) == [kind |-> "inst", cls |-> cls, props |-> props]

DatePojo == Pojo(<< <<"type", Str("Date")>>, <<"millis", Num(1234)>> >>)

\* the value x a caller passes, with the objects reachable from it
Input(name) ==
    CASE name = "date" -> [x |-> Ref(1), graph |-> <<DatePojo>>]
      [] name = "late" ->
            [x |-> Ref(1),
             graph |-> <<Pojo(<< <<"type", Str("late")>>,
                                 <<"millis", Num(1234)>> >>)>>]
      [] name = "extra junk" ->
            [x |-> Ref(1),
             graph |-> <<Pojo(<< <<"type", Str("Date")>>,
                                 <<"millis", Num(1234)>>,
                                 <<"foo", Str("bar")>> >>)>>]
      [] name = "unexpected symbol" ->
            [x |-> Ref(1),
             graph |-> <<Pojo(<< <<"type", Str("Date")>>,
                                 <<"millis", Num(1234)>>,
                                 <<"@s", Bool(TRUE)>> >>)>>]
      \* pojo.millis = pojo
      [] name = "object cycle" ->
            [x |-> Ref(1),
             graph |-> <<Pojo(<< <<"type", Str("Date")>>,
                                 <<"millis", Ref(1)>> >>)>>]
      \* arr.push({ type: 'Date', millis }, arr)
      [] name = "array cycle" ->
            [x |-> Ref(1), graph |-> <<Array(<<Ref(2), Ref(1)>>), DatePojo>>]
      \* outer = [ inner, inner ], inner = [ { type: 'Date', millis } ]
      [] name = "multiple used array" ->
            [x |-> Ref(1),
             graph |-> <<Array(<<Ref(2), Ref(2)>>), Array(<<Ref(3)>>),
                         DatePojo>>]
      \* arr = [ [ arr ] ]
      [] name = "nested array cycle" ->
            [x |-> Ref(1),
             graph |-> <<Array(<<Num(0), Ref(2)>>), Array(<<Ref(1)>>)>>]
      [] name = "x1" ->
            [x |-> Ref(1), graph |-> <<Pojo(<< <<"x", Num(1)>> >>)>>]
      [] name = "x tweet" ->
            [x |-> Ref(1), graph |-> <<Pojo(<< <<"x", Str("tweet")>> >>)>>]
      [] name = "x die" ->
            [x |-> Ref(1), graph |-> <<Pojo(<< <<"x", Str("die!")>> >>)>>]
      [] name = "no keys" -> [x |-> Ref(1), graph |-> <<Pojo(<<>>)>>]
      [] name = "y2" ->
            [x |-> Ref(1), graph |-> <<Pojo(<< <<"y", Num(2)>> >>)>>]
      [] name = "x1 y2" ->
            [x |-> Ref(1),
             graph |-> <<Pojo(<< <<"x", Num(1)>>, <<"y", Num(2)>> >>)>>]
      \* { $neg: 1 }, { $neg: 1, $inv: 2 }, { $neg: 1, $add: 2 }
      [] name = "neg" ->
            [x |-> Ref(1), graph |-> <<Pojo(<< <<"$neg", Num(1)>> >>)>>]
      [] name = "neg inv" ->
            [x |-> Ref(1),
             graph |-> <<Pojo(<< <<"$neg", Num(1)>>, <<"$inv", Num(2)>> >>)>>]
      [] name = "neg add" ->
            [x |-> Ref(1),
             graph |-> <<Pojo(<< <<"$neg", Num(1)>>, <<"$add", Num(2)>> >>)>>]
      \* { $add: [ 1, 2 ] }
      [] name = "add array" ->
            [x |-> Ref(1),
             graph |-> <<Pojo(<< <<"$add", Ref(2)>> >>),
                         Array(<<Num(1), Num(2)>>)>>]
      \* { x: { junk: 1 } }
      [] name = "x junk" ->
            [x |-> Ref(1),
             graph |-> <<Pojo(<< <<"x", Ref(2)>> >>),
                         Pojo(<< <<"junk", Num(1)>> >>)>>]
      \* pojo.x = pojo
      [] name = "x cycle" ->
            [x |-> Ref(1), graph |-> <<Pojo(<< <<"x", Ref(1)>> >>)>>]
      \* [ { x: inner }, { x: inner } ], inner = { x: 1 }
      [] name = "shared bag" ->
            [x |-> Ref(1),
             graph |-> <<Array(<<Ref(2), Ref(3)>>),
                         Pojo(<< <<"x", Ref(4)>> >>),
                         Pojo(<< <<"x", Ref(4)>> >>),
                         Pojo(<< <<"x", Num(1)>> >>)>>]
      [] name = "number" -> [x |-> Num(1), graph |-> <<>>]
      [] name = "function" -> [x |-> Fn("f"), graph |-> <<>>]
      \* new Html('hi')
      [] name = "instance" ->
            [x |-> Ref(1),
             graph |-> <<Instance("Html", << <<"text", Str("hi")>> >>)>>]
      \* an instance with the properties of a date among primitives
      [] name = "mixed array" ->
            [x |-> Ref(1),
             graph |-> <<Array(<<Ref(2), Fn("f"), Num(0), Str("four"), Null,
                                 Undefined, Ref(3)>>),
                         Instance("Html", << <<"type", Str("Date")>>,
                                             <<"millis", Num(1234)>> >>),
                         DatePojo>>]
      \* arr = [ 0 ]; arr.x = false; arr[symbol] = 'bar'
      [] name = "array custom props" ->
            [x |-> Ref(1),
             graph |-> <<ArrayWith(<<Num(0)>>, 1,
                                   << <<"x", Bool(FALSE)>>,
                                      <<"@s", Str("bar")>> >>)>>]
      \* arr = [ 0 ]; arr.length = 3, with an own property __proto__
      [] name = "sparse array" ->
            [x |-> Ref(1),
             graph |-> <<ArrayWith(<<Num(0)>>, 3,
                                   << <<"__proto__", Str("forged")>> >>)>>]
      [] name = "x one" ->
            [x |-> Ref(1), graph |-> <<Pojo(<< <<"x", Str("1")>> >>)>>]
      [] name = "x null" ->
            [x |-> Ref(1), graph |-> <<Pojo(<< <<"x", Null>> >>)>>]
      [] name = "y x null" ->
            [x |-> Ref(1),
             graph |-> <<Pojo(<< <<"y", Ref(2)>> >>),
                         Pojo(<< <<"x", Null>> >>)>>]
      [] name = "y z" ->
            [x |-> Ref(1),
             graph |-> <<Pojo(<< <<"y", Ref(2)>> >>),
                         Pojo(<< <<"z", Num(1)>> >>)>>]
      [] name = "y w" ->
            [x |-> Ref(1),
             graph |-> <<Pojo(<< <<"y", Ref(2)>> >>),
                         Pojo(<< <<"w", Num(1)>> >>)>>]
      [] name = "x x" ->
            [x |-> Ref(1), graph |-> <<Pojo(<< <<"x", Str("x")>> >>)>>]
      \* { x: { x: 'x' } }
      [] name = "x nested" ->
            [x |-> Ref(1),
             graph |-> <<Pojo(<< <<"x", Ref(2)>> >>),
                         Pojo(<< <<"x", Str("x")>> >>)>>]
      [] name = "x instance" ->
            [x |-> Ref(1),
             graph |-> <<Pojo(<< <<"x", Ref(2)>> >>),
                         Instance("Html", << <<"x", Str("x")>> >>)>>]
      \* { a: inner, b: inner }, inner = { type: 'Date', millis }
      [] name = "a b shared" ->
            [x |-> Ref(1),
             graph |-> <<Pojo(<< <<"a", Ref(2)>>, <<"b", Ref(2)>> >>),
                         DatePojo>>]
      \* self = { a: 1 }; self.b = self
      [] name = "b self" ->
            [x |-> Ref(1),
             graph |-> <<Pojo(<< <<"a", Num(1)>>, <<"b", Ref(1)>> >>)>>]
      \* { x: sentinel }
      [] name = "x sentinel" ->
            [x |-> Ref(1),
             graph |-> <<Pojo(<< <<"x", Ref(2)>> >>), Pojo(<<>>)>>]
      \* { x: {} }, and the sentinel
      [] name = "x other" ->
            [x |-> Ref(1),
             graph |-> <<Pojo(<< <<"x", Ref(3)>> >>), Pojo(<<>>), Pojo(<<>>)>>]
      [] name = "x a" ->
            [x |-> Ref(1), graph |-> <<Pojo(<< <<"x", Str("a")>> >>)>>]
      [] name = "x a y0" ->
            [x |-> Ref(1),
             graph |-> <<Pojo(<< <<"x", Str("a")>>, <<"y", Num(0)>> >>)>>]
      [] name = "x f y0" ->
            [x |-> Ref(1),
             graph |-> <<Pojo(<< <<"x", Str("f")>>, <<"y", Num(0)>> >>)>>]
      [] name = "y0" ->
            [x |-> Ref(1), graph |-> <<Pojo(<< <<"y", Num(0)>> >>)>>]
      [] name = "millis string" ->
            [x |-> Ref(1), graph |-> <<Pojo(<< <<"millis", Str("1234")>> >>)>>]
      [] name = "millis number" ->
            [x |-> Ref(1), graph |-> <<Pojo(<< <<"millis", Num(1234)>> >>)>>]

\* the callers: the descriptions a caller registers when it starts
\* (setup), the descriptions it has in all (shapes), the ones it may
\* rewrite after registering them (mutable), and its inputs
Family(name) ==
    CASE name = "date" ->
            [setup |-> <<"dateType">>, shapes |-> {"dateType"},
             mutable |-> {"dateType"}, contexts |-> {Undefined},
             inputs |-> {"date", "late", "extra junk", "unexpected symbol",
                         "object cycle", "array cycle", "multiple used array",
                         "nested array cycle", "number", "function",
                         "instance", "mixed array", "array custom props",
                         "sparse array"}]
      [] name = "duplicates" ->
            [setup |-> <<"typeA", "typeA">>, shapes |-> {"typeA", "typeB"},
             mutable |-> {"typeA"}, contexts |-> {Undefined},
             inputs |-> {"x1", "x tweet", "x cycle", "shared bag"}]
      [] name = "trusted properties" ->
            [setup |-> <<"withFallback">>,
             shapes |-> {"withFallback", "optional", "noFallback",
                         "softFallback"},
             mutable |-> {}, contexts |-> {Undefined},
             inputs |-> {"x die", "x tweet", "no keys"}]
      [] name = "defaults" ->
            [setup |-> <<"defaultX">>,
             shapes |-> {"defaultX", "defaultXY", "defaultSymbol",
                         "defaultConvert"},
             mutable |-> {}, contexts |-> {Undefined},
             inputs |-> {"no keys", "x1", "y2", "x1 y2"}]
      [] name = "ugly duck types" ->
            [setup |-> <<"dateType", "plain">>,
             shapes |-> {"dateType", "plain", "empty", "noClassType",
                         "classTypeNotFunction", "noToConstructorArguments",
                         "toConstructorArgumentsNotFunction", "noProperties",
                         "propertiesFalse", "propertiesNull",
                         "protoProperties"},
             mutable |-> {"plain"}, contexts |-> {Undefined},
             inputs |-> {"date", "late", "x1", "number"}]
      [] name = "candidates" ->
            [setup |-> <<"wrapA", "wrapB">>,
             shapes |-> {"wrapA", "wrapB", "opaque"},
             mutable |-> {}, contexts |-> {Undefined},
             inputs |-> {"x1", "x junk", "x cycle", "shared bag"}]
      [] name = "converter order" ->
            [setup |-> <<"numberPlusOne">>,
             shapes |-> {"numberPlusOne", "stringPlusOne", "literalAndType"},
             mutable |-> {}, contexts |-> {Undefined},
             inputs |-> {"x1", "x one", "x tweet", "x null"}]
      [] name = "throwers" ->
            [setup |-> <<"badType", "goodType">>,
             shapes |-> {"badType", "goodType", "opaqueY", "badConvert",
                         "badArguments"},
             mutable |-> {}, contexts |-> {Undefined},
             inputs |-> {"x null", "y x null", "y z", "y w"}]
      [] name = "sentinel values" ->
            [setup |-> <<"hasSentinel", "emptyType">>,
             shapes |-> {"hasSentinel", "emptyType", "recursedSentinel"},
             mutable |-> {}, contexts |-> {Undefined},
             inputs |-> {"no keys", "x sentinel", "x other"}]
      [] name = "special value ambiguity" ->
            [setup |-> <<"valueA", "valueB">>,
             shapes |-> {"valueA", "valueB", "optionalE"},
             mutable |-> {}, contexts |-> {Undefined},
             inputs |-> {"x a", "x a y0", "x f y0", "y0"}]
      [] name = "bad toConstructorArgs" ->
            [setup |-> <<"numberArgs", "typedC">>,
             shapes |-> {"numberArgs", "typedC", "loggedArgs", "pair"},
             mutable |-> {}, contexts |-> {Undefined},
             inputs |-> {"millis string", "millis number", "x1 y2"}]
      [] name = "sparse heterogeneous" ->
            [setup |-> <<"unaryOperator", "arithOperator">>,
             shapes |-> {"unaryOperator", "arithOperator", "strOperator"},
             mutable |-> {}, contexts |-> {Undefined},
             inputs |-> {"neg", "neg inv", "neg add", "add array"}]
      [] name = "userContext" ->
            [setup |-> <<"ctxType", "dateType">>,
             shapes |-> {"ctxType", "dateType", "holder"},
             mutable |-> {}, contexts |-> {Undefined, Fn("log")},
             inputs |-> {"no keys", "x x", "x nested", "x instance",
                         "a b shared", "b self"}]

Families ==
    {"date", "duplicates", "trusted properties", "defaults",
     "ugly duck types", "candidates", "converter order", "throwers",
     "sentinel values", "special value ambiguity", "bad toConstructorArgs",
     "sparse heterogeneous", "userContext"}

----------------------------------------------------------------------------
(* The state machine *)

\* how many descriptions a caller registers after its setup
MaxRegistered == 1

NoCall ==
    [op |-> "none", pond |-> 0, trusted |-> FALSE, input |-> "",
     userContext |-> Undefined, added |-> <<>>,
     err |-> NoError, val |-> Undefined, heap |-> <<>>, log |-> <<>>,
     memo |-> <<>>]

\* no call is followed step by step
NoContext ==
    [trusted |-> FALSE, root |-> NoRoot, userContext |-> Undefined,
     graph |-> <<>>, call |-> 0]

NoWalk ==
    [pc |-> "idle", trusted |-> FALSE, input |-> "", userContext |-> Undefined,
     work |-> <<>>, c |-> NoContext, arg |-> Undefined, ret |-> Undefined,
     err |-> NoError, stack |-> <<>>, st |-> NewCall(NoContext)]

\* the sequences over S of length up to n
RECURSIVE SeqsUpTo(_, _)
SeqsUpTo(S, n) ==
    IF n <= 0 THEN {<<>>}
    ELSE LET shorter == SeqsUpTo(S, n - 1)
         IN shorter \cup {Append(q, e) : q \in shorter, e \in S}

Init ==
    /\ family \in Families
    /\ rawShapes = [id \in Family(family).shapes |-> RawShape(id)]
    /\ ponds = <<makePond(<<>>)>>
    /\ registered = 0
    /\ last = NoCall
    /\ walk = NoWalk

\* ponds[p].withTypes(...more)
WithTypes(p, more) ==
    LET isSetup == Len(ponds) = 1 /\ more = Family(family).setup
        returned(w) ==
            /\ ponds' = [ponds EXCEPT ![p] = w.pond]
                          \o IF w.err = NoError
                             THEN <<makePond(w.duckTypes)>> ELSE <<>>
            /\ last' = [NoCall EXCEPT !.op = "withTypes", !.pond = p,
                                      !.added = more, !.err = w.err]
    IN /\ last.op = "none"
       /\ more # <<>>
       /\ isSetup \/ registered + Len(more) <= MaxRegistered
       /\ returned(withTypes(ponds[p], rawShapes, more))
       /\ registered' = IF isSetup THEN registered ELSE registered + Len(more)
       /\ UNCHANGED <<family, rawShapes, walk>>

\* ponds[p](x, userContext) or ponds[p].trust(x, userContext)
Unduck(p, trusted, input, userContext) ==
    LET returned(u) ==
            /\ ponds' = [ponds EXCEPT ![p] = u.pond]
            /\ last' = [NoCall EXCEPT !.op = "unduck", !.pond = p,
                                      !.trusted = trusted, !.input = input,
                                      !.userContext = userContext,
                                      !.err = u.err, !.val = u.val,
                                      !.heap = u.st.heap, !.log = u.st.log,
                                      !.memo = u.st.memo]
        called(i) ==
            returned(unduck(ponds[p], rawShapes, trusted, i.graph, i.x,
                            userContext))
    IN /\ called(Input(input))
       /\ UNCHANGED <<family, rawShapes, registered, walk>>

\* the caller calls a pond
Call ==
    /\ last.op = "none"
    /\ \E p \in 1..Len(ponds), trusted \in BOOLEAN :
        \E input \in Family(family).inputs :
            \E userContext \in Family(family).contexts :
                Unduck(p, trusted, input, userContext)

\* the caller makes the call it just made once more
Repeat ==
    /\ last.op = "unduck"
    /\ Unduck(last.pond, last.trusted, last.input, last.userContext)

\* the caller registers descriptions
Register ==
    \E p \in 1..Len(ponds) :
        \E more \in {Family(family).setup}
                      \cup SeqsUpTo(Family(family).shapes,
                                    MaxRegistered - registered) :
            WithTypes(p, more)

\* the caller rewrites a description it has registered
Mutate(id) ==
    /\ \E p \in 1..Len(ponds) :
          \E i \in 1..Len(ponds[p].duckTypes) : ponds[p].duckTypes[i] = id
    /\ rawShapes[id] = RawShape(id)
    /\ rawShapes' = [rawShapes EXCEPT ![id] = Mutated(id)]
    /\ UNCHANGED <<family, ponds, registered, last, walk>>

Rewrite == \E id \in Family(family).mutable : Mutate(id)

\* the caller drops what the last operation returned
Discard ==
    /\ last.op # "none"
    /\ last' = NoCall
    /\ UNCHANGED <<family, rawShapes, ponds, registered, walk>>

Next == Register \/ Rewrite \/ Call \/ Repeat \/ Discard

Spec == Init /\ [][Next]_vars

----------------------------------------------------------------------------
(* One call of a pond, step by step: getRoot() builds the tree one DTree   *)
(* constructor call at a time, and process(x) runs with its calls of       *)
(* itself spelled out as a stack of activations.                           *)

NoneApplied == [applicable |-> <<>>, suppressedErrors |-> <<>>]

\* one activation of process(x), for the array or bag graph[n], that is
\* waiting for a value it holds to be processed: processArray at entries[i],
\* or tentativelyApplyDuckTypes at the candidate ci of node, in the loop of
\* applyOneDuckType over recurseToKeys at index ri (ri is 0 before the
\* candidate is looked at)
Frame(kind, n) ==
    [kind |-> kind, n |-> n, entries |-> <<>>, i |-> 0, slot |-> 0,
     node |-> NoRoot, unchained |-> <<>>, ci |-> 0, ri |-> 0,
     scratchSpace |-> <<>>, acc |-> NoneApplied]

Top(w) == w.stack[Len(w.stack)]
Pop(w) == SubSeq(w.stack, 1, Len(w.stack) - 1)

\* the DTree constructor calls that new DTree(duckTypes, used, parent)
\* makes, each with its duckTypes and the keys used
Partitions(duckTypes, used) ==
    LET child(types, keys) == [duckTypes |-> types, used |-> keys]
        onKey(req, used1) ==
            <<child(req.haveNot, used1),
              child(req.haveWithoutSpecialValue, used1)>>
              \o [i \in 1..Len(req.valueMap) |->
                    child(req.valueMap[i][2] \o req.haveWithoutSpecialValue,
                          used1)]
        onMayHave(keyPartitionMap, newUsed) ==
            [i \in 1..Len(keyPartitionMap) |->
                child(keyPartitionMap[i][2], newUsed)]
              \o <<child(duckTypes, newUsed)>>
        chosen(req, opt) ==
            IF ~req.skip
               /\ ~(opt.keyPartitionMap # <<>>
                    /\ EntropyLess(opt.entropyAfter, req.entropyAfter))
            THEN onKey(req, used \cup {req.key})
            ELSE IF opt.keyPartitionMap # <<>>
            THEN onMayHave(opt.keyPartitionMap,
                           used \cup Range(KeysOf(opt.keyPartitionMap)))
            ELSE <<>>
        keyed(kk) ==
            chosen(partitionOnRequiredKey(
                       duckTypes, SelectSeq(kk[1], LAMBDA key : key \notin used)),
                   partitionOnOptionalKeys(
                       duckTypes, SelectSeq(kk[2], LAMBDA key : key \notin used)))
    IN IF Len(duckTypes) <= 1 THEN <<>>
       ELSE keyed(keysForTypes(duckTypes))

\* process(x) is called with w.arg
enterProcess(w) ==
    LET x == w.arg
        marked == [w.st EXCEPT !.memo[x.n] = IN_PROGRESS_BREADCRUMB]
        array(own) ==
            [w EXCEPT
                !.pc = "loop",
                !.st = [marked EXCEPT !.heap =
                           Append(@, [cls |-> "Array", props |-> <<>>])],
                !.stack = Append(@,
                    [Frame("array", x.n) EXCEPT
                        !.entries =
                            SelectSeq(StringEntries(own),
                                LAMBDA e : e[1] # "__proto__" /\ e[1] # "length")
                              \o SymbolEntries(own),
                        !.i = 1,
                        !.slot = Len(w.st.heap) + 1])]
        hunted(unchained, hunt) ==
            IF hunt.missing
            THEN [w EXCEPT !.pc = "throw", !.st = marked,
                           !.err = Err("MissingDuckError",
                                       "Could not find duck type", "", "")]
            ELSE [w EXCEPT
                    !.pc = "loop", !.st = marked,
                    !.stack = Append(@,
                        [Frame("pojo", x.n) EXCEPT
                            !.node = hunt.node, !.unchained = unchained,
                            !.ci = 1])]
        pojo(unchained) == hunted(unchained, duckHunt(w.c.root, unchained))
    IN IF x.k # "ref" \/ w.c.graph[x.n].kind \notin {"pojo", "array"}
       THEN [w EXCEPT !.pc = "return", !.ret = x]
       ELSE IF w.st.memo[x.n] = IN_PROGRESS_BREADCRUMB
       THEN [w EXCEPT !.pc = "throw",
                      !.err = Err("DuckError", "Duck hunt cycle", "", "")]
       ELSE IF w.st.memo[x.n] # Unvisited
       THEN [w EXCEPT !.pc = "return", !.ret = w.st.memo[x.n]]
       ELSE IF w.c.graph[x.n].kind = "array"
       THEN array(w.c.graph[x.n].props)
       ELSE pojo(Unchained(w.c, x))

\* the head of the loops of processArray
loopArray(w) ==
    LET f == Top(w)
    IN IF f.i > Len(f.entries)
       THEN [w EXCEPT !.pc = "return", !.ret = Obj(f.slot),
                      !.st.memo[f.n] = Obj(f.slot), !.stack = Pop(w)]
       ELSE [w EXCEPT !.pc = "call", !.arg = f.entries[f.i][2]]

\* the head of the loop of tentativelyApplyDuckTypes over node.types(), and
\* in it of the loop of applyOneDuckType over recurseToKeys; what follows
\* that loop for one candidate is a turn of applyLoop on the properties as
\* the recursion left them
loopPojo(w) ==
    LET f == Top(w)
        candidateDone(r) ==
            IF r.err # NoError
            THEN [w EXCEPT !.pc = "throw", !.err = r.err, !.st = r.st,
                           !.stack = Pop(w)]
            ELSE [w EXCEPT
                    !.st = r.st,
                    !.stack[Len(w.stack)] =
                        [f EXCEPT !.ci = f.ci + 1, !.ri = 0,
                                  !.scratchSpace = <<>>,
                                  !.acc = [applicable |-> r.applicable,
                                           suppressedErrors |->
                                               r.suppressedErrors]]]
        oneCandidate(props) ==
            candidateDone(
                applyLoop(w.c,
                          [f.node EXCEPT !.duckTypes = <<f.node.duckTypes[f.ci]>>],
                          1, props, FALSE, f.acc, w.st))
        constructed(r) ==
            IF r.err # NoError
            THEN [w EXCEPT !.pc = "throw", !.err = r.err, !.st = r.st,
                           !.stack = Pop(w)]
            ELSE [w EXCEPT !.pc = "return", !.ret = r.val,
                           !.st = [r.st EXCEPT !.memo[f.n] = r.val],
                           !.stack = Pop(w)]
        \* the MissingDuckError is made, and its toString() runs: the
        \* values the candidates recurse to have been processed by now
        described(again) ==
            [w EXCEPT !.pc = "throw",
                      !.err = IF again.err # NoError THEN again.err
                              ELSE Err("MissingDuckError", "", "", ""),
                      !.st = again.st,
                      !.stack = Pop(w)]
        fits(duckType) ==
            /\ SelectSeq(KeysOf(StringEntries(f.unchained)),
                         LAMBDA key : ~In(key, duckType.properties)) = <<>>
            /\ SelectSeq(duckType.requiredKeys,
                         LAMBDA key : ~In(key, f.unchained)) = <<>>
        recursing(duckType) ==
            IF f.ri = 0
            THEN IF fits(duckType)
                 THEN [w EXCEPT !.stack[Len(w.stack)] =
                                   [f EXCEPT !.ri = 1,
                                             !.scratchSpace = f.unchained]]
                 ELSE oneCandidate(f.unchained)
            ELSE IF f.ri > Len(duckType.recurseToKeys)
            THEN oneCandidate(f.scratchSpace)
            ELSE IF ~In(duckType.recurseToKeys[f.ri], f.scratchSpace)
            THEN [w EXCEPT !.stack[Len(w.stack)] = [f EXCEPT !.ri = f.ri + 1]]
            ELSE [w EXCEPT !.pc = "call",
                           !.arg = Get(f.scratchSpace,
                                       duckType.recurseToKeys[f.ri])]
    IN IF f.ci <= Len(f.node.duckTypes)
       THEN recursing(f.node.duckTypes[f.ci])
       ELSE IF f.acc.applicable = <<>>
       THEN described(tentativelyApplyDuckTypes(w.c, f.node, f.unchained,
                                                TRUE, w.st))
       ELSE constructed(construct(w.c, f.acc.applicable[1],
                                  f.acc.applicable[2], w.st))

\* process(x) returned w.ret to the activation that called it
deliverInPlace(w) ==
    LET f == Top(w)
    IN IF f.kind = "array"
       THEN [w EXCEPT !.pc = "loop",
                      !.st.heap[f.slot].props = Put(@, f.entries[f.i][1], w.ret)]
       ELSE [w EXCEPT
               !.pc = "loop",
               !.stack[Len(w.stack)] =
                   [f EXCEPT !.scratchSpace =
                                Put(@, f.node.duckTypes[f.ci].recurseToKeys[f.ri],
                                    w.ret)]]

\* process(x) returned w.ret to the activation that called it: result[key] =
\* process(x[key]) and ++i, or scratchSpace[recKey] = process(...) and ++i
deliver(w) ==
    LET f == Top(w)
    IN IF f.kind = "array"
       THEN [w EXCEPT !.pc = "loop",
                      !.st.heap[f.slot].props = Put(@, f.entries[f.i][1], w.ret),
                      !.stack[Len(w.stack)] = [f EXCEPT !.i = f.i + 1]]
       ELSE [w EXCEPT
               !.pc = "loop",
               !.stack[Len(w.stack)] =
                   [f EXCEPT !.scratchSpace =
                                Put(@, f.node.duckTypes[f.ci].recurseToKeys[f.ri],
                                    w.ret),
                             !.ri = f.ri + 1]]

\* process(x) threw w.err into the activation that called it: processArray
\* lets it through; applyOneDuckType catches a MissingDuckError unless
\* failFast, and the candidate has failed
unwind(w) ==
    LET f == Top(w)
    IN IF /\ f.kind = "pojo"
          /\ f.node.count # 1
          /\ w.err.kind = "MissingDuckError"
       THEN [w EXCEPT !.pc = "loop", !.err = NoError,
                      !.stack[Len(w.stack)] =
                          [f EXCEPT !.ci = f.ci + 1, !.ri = 0,
                                    !.scratchSpace = <<>>]]
       ELSE [w EXCEPT !.stack = Pop(w)]

\* the caller calls the pond it has made with its descriptions
InitWalk ==
    /\ family \in Families
    /\ rawShapes = [id \in Family(family).shapes |-> RawShape(id)]
    /\ registered = 0
    /\ last = NoCall
    /\ \E more \in SeqsUpTo(Family(family).shapes, MaxRegistered) :
          /\ mapMetadataMaker(<<>>, rawShapes,
                              Family(family).setup \o more, 1).err = NoError
          /\ ponds = <<makePond(Distinct(Family(family).setup \o more))>>
    /\ \E trusted \in BOOLEAN, input \in Family(family).inputs,
          userContext \in Family(family).contexts :
          walk = [NoWalk EXCEPT !.pc = "getRoot", !.trusted = trusted,
                                !.input = input, !.userContext = userContext]

\* getRoot(): the descriptions are normalized and new DTree(duckTypesNorm,
\* new Set(), null) is called
Normalize ==
    /\ walk.pc = "getRoot"
    /\ walk' = [walk EXCEPT
                  !.pc = "build",
                  !.work =
                      LET ids == Distinct(ponds[1].duckTypes)
                          m == mapMetadataMaker(ponds[1].metadataMap, rawShapes,
                                                ids, 1)
                      IN <<[duckTypes |-> [i \in 1..Len(ids) |->
                                              Get(m.map, ids[i])],
                            used |-> {}]>>]
    /\ UNCHANGED <<family, rawShapes, ponds, registered, last>>

\* one call of the DTree constructor
Construct ==
    /\ walk.pc = "build"
    /\ walk.work # <<>>
    /\ walk' = [walk EXCEPT
                  !.work = Partitions(Head(walk.work).duckTypes,
                                      Head(walk.work).used)
                             \o Tail(walk.work)]
    /\ UNCHANGED <<family, rawShapes, ponds, registered, last>>

\* the tree is built: processor(trusted, getRoot(), userContext)(x)
Built ==
    LET rooted(g, i) ==
            /\ ponds' = <<g.pond>>
            /\ walk' = LET c == [trusted |-> walk.trusted, root |-> g.pond.root,
                                 userContext |-> walk.userContext,
                                 graph |-> i.graph, call |-> 0]
                       IN [walk EXCEPT !.pc = "call", !.c = c, !.arg = i.x,
                                       !.st = NewCall(c)]
    IN /\ walk.pc = "build"
       /\ walk.work = <<>>
       /\ rooted(getRoot(ponds[1], rawShapes), Input(walk.input))
       /\ UNCHANGED <<family, rawShapes, registered, last>>

Enter ==
    /\ walk.pc = "call"
    /\ walk' = enterProcess(walk)
    /\ UNCHANGED <<family, rawShapes, ponds, registered, last>>

NextElement ==
    /\ walk.pc = "loop"
    /\ Top(walk).kind = "array"
    /\ walk' = loopArray(walk)
    /\ UNCHANGED <<family, rawShapes, ponds, registered, last>>

NextCandidate ==
    /\ walk.pc = "loop"
    /\ Top(walk).kind = "pojo"
    /\ walk' = loopPojo(walk)
    /\ UNCHANGED <<family, rawShapes, ponds, registered, last>>

Deliver ==
    /\ walk.pc = "return"
    /\ walk.stack # <<>>
    /\ walk' = deliver(walk)
    /\ UNCHANGED <<family, rawShapes, ponds, registered, last>>

Unwind ==
    /\ walk.pc = "throw"
    /\ walk.stack # <<>>
    /\ walk' = unwind(walk)
    /\ UNCHANGED <<family, rawShapes, ponds, registered, last>>

\* the call returns to the caller, or throws
Finish ==
    /\ walk.pc \in {"return", "throw"}
    /\ walk.stack = <<>>
    /\ walk' = [walk EXCEPT !.pc = "done"]
    /\ last' = [NoCall EXCEPT
                  !.op = "unduck", !.pond = 1, !.trusted = walk.trusted,
                  !.input = walk.input, !.userContext = walk.userContext,
                  !.err = IF walk.pc = "throw" THEN walk.err ELSE NoError,
                  !.val = IF walk.pc = "throw" THEN Undefined ELSE walk.ret,
                  !.heap = walk.st.heap, !.log = walk.st.log,
                  !.memo = walk.st.memo]
    /\ UNCHANGED <<family, rawShapes, ponds, registered>>

NextWalk ==
    \/ Normalize \/ Construct \/ Built \/ Enter \/ NextElement
    \/ NextCandidate \/ Deliver \/ Unwind \/ Finish

\* the call has not returned or thrown yet
Running == walk.pc # "done"

\* the condition of one of the steps holds
Stepping ==
    \/ walk.pc \in {"getRoot", "build", "call", "return", "throw"}
    \/ walk.pc = "loop" /\ walk.stack # <<>>

\* a call, once made, runs until it returns or throws, and nothing else
\* runs while it does: weak fairness of NextWalk, WF_vars(NextWalk), written
\* out with Running for ENABLED <<NextWalk>>_vars
WalkSpec ==
    /\ InitWalk
    /\ [][NextWalk]_vars
    /\ ([]<>(~Running) \/ []<><<NextWalk>>_vars)

----------------------------------------------------------------------------
(* What the last call did, seen from outside.                              *)

\* the context of the call that last records, on the pond it was made on
CallContext(pond, call) ==
    [trusted |-> call.trusted, root |-> pond.root,
     userContext |-> call.userContext, graph |-> Input(call.input).graph,
     call |-> 0]

\* the input of the last call is a bag of properties
IsBag(name) ==
    LET bag(i) == i.x.k = "ref" /\ i.graph[i.x.n].kind = "pojo"
    IN bag(Input(name))

\* the state of a call when the candidates of its input bag are screened
TopState(c, x) == [NewCall(c) EXCEPT !.memo[x.n] = IN_PROGRESS_BREADCRUMB]

\* the full screening of one candidate on its own: "passes", "fails", or
\* "throws" when an error other than a soft failure leaves it
Screening(c, duckType, unchained, st) ==
    LET argued(args) ==
            IF args.err # NoError THEN "throws"
            ELSE IF args.val = NotAnArray THEN "fails" ELSE "passes"
        applied(one) ==
            IF one.err # NoError THEN "throws"
            ELSE IF one.isNull THEN "fails"
            ELSE argued(toConstructorArguments(c, duckType, one.scratchSpace,
                                               one.st))
    IN applied(applyOneDuckType(c, duckType, unchained, FALSE, st))

\* the candidates of the input bag of a call: the types of the node the
\* duck hunt reaches
Candidates(c, unchained) ==
    LET hunted(hunt) == IF hunt.missing THEN <<>> ELSE hunt.node.duckTypes
    IN hunted(duckHunt(c.root, unchained))

\* the screening of every candidate of the input bag of the last call
Screenings(c, x) ==
    LET each(candidates, unchained, st) ==
            [i \in 1..Len(candidates) |->
                [id |-> candidates[i].id,
                 classType |-> candidates[i].classType.s,
                 result |-> Screening(c, candidates[i], unchained, st)]]
        of(unchained) == each(Candidates(c, unchained), unchained, TopState(c, x))
    IN of(Unchained(c, x))

LastScreenings ==
    Screenings(CallContext(ponds[last.pond], last), Input(last.input).x)

Passing(screenings) ==
    {screenings[i].id : i \in {j \in 1..Len(screenings) :
                                 screenings[j].result = "passes"}}

AmbiguityError(err) ==
    /\ err.kind = "DuckError"
    /\ err.msg = "Duck hunt found multiple applicable types"

\* a call on a bag, on a pond whose tree is built
BagCall ==
    /\ last.op = "unduck"
    /\ IsBag(last.input)
    /\ ponds[last.pond].root # NoRoot

\* the law on the screenings of the candidates of a call
ExactlyOneMatches(screenings, passing) ==
    (/\ \A i \in 1..Len(screenings) :
            /\ screenings[i].result # "throws"
            /\ screenings[i].classType \notin ThrowingClasses)
    => /\ last.err = NoError <=> Cardinality(passing) = 1
       /\ Cardinality(passing) >= 2 =>
            /\ AmbiguityError(last.err)
            /\ {last.err.a, last.err.b} \subseteq passing
            /\ last.err.a # last.err.b

\* C1: a call on a bag none of whose candidates throws, and none of whose
\* candidates has a constructor that throws, returns a value if and only if
\* exactly one candidate passes the full screening, and fails with the
\* ambiguity error naming two passing candidates when two or more pass
C1_ExactlyOneMatch ==
    BagCall =>
        LET law(screenings) == ExactlyOneMatches(screenings, Passing(screenings))
        IN law(LastScreenings)

CycleError(err) == err.kind = "DuckError" /\ err.msg = "Duck hunt cycle"

\* the objects an array of the input holds
ArrayChildren(graph, n) ==
    IF graph[n].kind # "array" THEN {}
    ELSE {m \in 1..Len(graph) :
            \E i \in 1..Len(graph[n].props) : graph[n].props[i][2] = Ref(m)}

\* S and what is reached from S through arrays in up to k steps
RECURSIVE ArrayDescendants(_, _, _)
ArrayDescendants(graph, S, k) ==
    IF k = 0 THEN S
    ELSE ArrayDescendants(graph,
                          S \cup UNION {ArrayChildren(graph, n) : n \in S},
                          k - 1)

\* the input is an array that holds, through arrays, an array that holds
\* itself through arrays
SelfReferentialArray(i) ==
    /\ i.x.k = "ref"
    /\ \E n \in ArrayDescendants(i.graph, {i.x.n}, Len(i.graph)) :
          n \in ArrayDescendants(i.graph, ArrayChildren(i.graph, n),
                                 Len(i.graph))

\* the keys under which the input bag holds itself
SelfKeys(i) ==
    IF i.x.k = "ref" /\ i.graph[i.x.n].kind = "pojo"
    THEN {e[1] : e \in {f \in Range(i.graph[i.x.n].props) : f[2] = i.x}}
    ELSE {}

\* the candidate declares every key of the bag, finds its required keys in
\* it, and recursively unducks one of the keys
RecursesInto(duckType, unchained, keys) ==
    /\ \A i \in 1..Len(unchained) : In(unchained[i][1], duckType.properties)
    /\ \A i \in 1..Len(duckType.requiredKeys) :
          In(duckType.requiredKeys[i], unchained)
    /\ keys \cap Range(duckType.recurseToKeys) # {}

\* no bag of the input is left marked in progress
NoBagInProgress(i) ==
    \A n \in 1..Len(i.graph) :
        i.graph[n].kind = "pojo" => last.memo[n] # IN_PROGRESS_BREADCRUMB

\* the cycle error for every self-referential input
CycleFails(i) ==
    SelfReferentialArray(i) \/ SelfKeys(i) # {} => CycleError(last.err)

CycleFailsWhereEntered(i, candidates, unchained) ==
    /\ SelfReferentialArray(i) =>
          /\ last.err # NoError
          /\ NoBagInProgress(i) => CycleError(last.err)
    /\ SelfKeys(i) # {} =>
          /\ (\E j \in 1..Len(candidates) :
                 RecursesInto(candidates[j], unchained, SelfKeys(i)))
             => last.err # NoError
          /\ (/\ candidates # <<>>
              /\ RecursesInto(candidates[1], unchained, SelfKeys(i)))
             => CycleError(last.err)
          /\ last.err = NoError =>
                \E j \in 1..Len(last.log) :
                    /\ last.log[j].fn = "toConstructorArguments"
                    /\ \A k \in SelfKeys(i) : Get(last.log[j].props, k) = i.x

Compound(i, v) == v.k = "ref" /\ i.graph[v.n].kind \in {"pojo", "array"}

\* the arrays and bags of the input the call finished
Done(i, kind) ==
    {n \in 1..Len(i.graph) : i.graph[n].kind = kind /\ last.memo[n].k = "obj"}

\* the arrays and bags of the input that two of its properties hold
SharedNodes(i) ==
    {m \in 1..Len(i.graph) :
        /\ i.graph[m].kind \in {"pojo", "array"}
        /\ Cardinality({<<n, j>> \in (1..Len(i.graph)) \X (1..Len(i.graph)) :
                            /\ j <= Len(i.graph[n].props)
                            /\ i.graph[n].props[j][2] = Ref(m)}) >= 2}

LogIndices(fn) == {j \in 1..Len(last.log) : last.log[j].fn = fn}

\* the bag toConstructorArguments got for the instance made for bag n, when
\* its first constructor argument is that bag
ScratchOf(n) ==
    LET first(arguments) ==
            IF arguments = <<>> \/ arguments[1][2].k # "obj" THEN <<>>
            ELSE IF last.heap[arguments[1][2].n].cls # "" THEN <<>>
            ELSE last.heap[arguments[1][2].n].props
    IN first(last.heap[last.memo[n].n].props)

\* no function of the caller called the pond again while the call was
\* under way
OneCall == \A j \in 1..Len(last.log) : last.log[j].call = 0

\* one result for each array and bag finished
SharedOnce(i) ==
    /\ \A n, m \in Done(i, "pojo") \cup Done(i, "array") :
          n # m => last.memo[n] # last.memo[m]
    /\ \A n \in Done(i, "array") :
          \A j \in {k \in 1..Len(i.graph[n].props) :
                       i.graph[n].props[k][1] \notin {"length", "__proto__"}} :
              Get(last.heap[last.memo[n].n].props, i.graph[n].props[j][1])
                = IF Compound(i, i.graph[n].props[j][2])
                  THEN last.memo[i.graph[n].props[j][2].n]
                  ELSE i.graph[n].props[j][2]
    /\ \A n \in Done(i, "pojo") :
          \A j \in 1..Len(i.graph[n].props) :
              (/\ Compound(i, i.graph[n].props[j][2])
               /\ In(i.graph[n].props[j][1], ScratchOf(n)))
              => Get(ScratchOf(n), i.graph[n].props[j][1])
                   \in {last.memo[i.graph[n].props[j][2].n],
                        i.graph[n].props[j][2]} \ {IN_PROGRESS_BREADCRUMB}
    /\ Cardinality(LogIndices("new")) = Cardinality(Done(i, "pojo"))
    /\ \A j \in LogIndices("new") :
          Cardinality({k \in LogIndices("toConstructorArguments") :
                          last.log[k].value = last.log[j].value}) = 1
    /\ Cardinality({k \in LogIndices("toConstructorArguments") :
                      last.log[k].value # NotAnArray})
         = Cardinality(LogIndices("new"))

\* C3: in a call that returned a value, and during which no function of
\* the caller called the pond again, every array or bag of the input
\* that was finished has one result of its own; an array of the result
\* holds, under each key it copies, the one result of the value the input holds
\* under that key, and a bag handed to toConstructorArguments holds that
\* result or, where it does not recurse, the input value itself; and
\* toConstructorArguments returned an array, and the constructor was
\* called, once for each bag finished
C3_SharedOnce ==
    last.op = "unduck" /\ last.err = NoError /\ OneCall =>
        SharedOnce(Input(last.input))

\* a call returned a value for an input that holds a finished array or bag
\* twice
C3_Witness ==
    /\ last.op = "unduck"
    /\ last.err = NoError
    /\ \E m \in SharedNodes(Input(last.input)) : last.memo[m].k = "obj"

\* the descriptor of a property as the caller wrote it
RawProperty(type, key) == Get(rawShapes[type].properties.props, key)

Declares(type, key) ==
    /\ rawShapes[type] = RawShape(type)
    /\ In(key, rawShapes[type].properties.props)

\* the descriptor requires trust and names an innocuous value
TrustRequired(rawProperty) ==
    /\ hasOwn(rawProperty, "innocuous")
    /\ hasOwn(rawProperty, "trusted") => rawProperty.trusted = Bool(TRUE)

\* what the functions of the caller may see of value
Seen(rawProperty, value) ==
    IF last.trusted THEN value ELSE rawProperty.innocuous

\* what the convert of the descriptor, if it has one, makes of value
Converted(rawProperty, value) ==
    IF hasOwn(rawProperty, "convert")
    THEN RawConvertResult(rawProperty.convert.s, value, last.trusted).value
    ELSE value

\* the own properties of the input bag that are not arrays or bags
PlainEntries(i) ==
    SelectSeq(i.graph[i.x.n].props, LAMBDA e : ~Compound(i, e[2]))

\* the innocuous value in place of the input value
TrustLaw(bag) ==
    \A j \in 1..Len(last.log) :
        /\ (/\ last.log[j].fn = "convert"
            /\ Declares(last.log[j].type, last.log[j].key)
            /\ TrustRequired(RawProperty(last.log[j].type, last.log[j].key))
            /\ In(last.log[j].key, bag))
           => last.log[j].value
                = Seen(RawProperty(last.log[j].type, last.log[j].key),
                       Get(bag, last.log[j].key))
        /\ last.log[j].fn = "toConstructorArguments" =>
              \A k \in 1..Len(bag) :
                  (/\ Declares(last.log[j].type, bag[k][1])
                   /\ TrustRequired(RawProperty(last.log[j].type, bag[k][1])))
                  => Get(last.log[j].props, bag[k][1])
                       = Converted(RawProperty(last.log[j].type, bag[k][1]),
                                   Seen(RawProperty(last.log[j].type,
                                                    bag[k][1]),
                                        bag[k][2]))

SameCall ==
    /\ last.op = "unduck"
    /\ last'.op = "unduck"
    /\ last'.pond = last.pond
    /\ last'.input = last.input
    /\ last'.trusted = last.trusted
    /\ last'.userContext = last.userContext

\* C5: a call made again on the same pond with the same input, whether
\* the first call built the tree of the pond or not, throws an error of
\* the same kind or returns an equal value
C5_Deterministic ==
    [][SameCall =>
          /\ last'.err.kind = last.err.kind
          /\ last'.val = last.val
          /\ last'.heap = last.heap]_vars

\* a call returned an instance from a pond one of whose descriptions the
\* caller has rewritten since registering it
C5_Witness ==
    /\ last.op = "unduck"
    /\ last.err = NoError
    /\ last.val.k = "obj"
    /\ \E id \in Range(ponds[last.pond].duckTypes) :
          rawShapes[id] # RawShape(id)

\* what a call of pond would throw or return
Outcome(pond, trusted, input, userContext) ==
    LET returned(u) == [err |-> u.err, val |-> u.val, heap |-> u.st.heap]
        called(i) ==
            returned(unduck(pond, rawShapes, trusted, i.graph, i.x, userContext))
    IN called(Input(input))

\* what every call of the caller on pond would throw or return
Behaviour(pond) ==
    [call \in BOOLEAN \X Family(family).inputs \X Family(family).contexts |->
        Outcome(pond, call[1], call[2], call[3])]

\* the caller has rewritten none of its descriptions
Unrewritten == \A id \in DOMAIN rawShapes : rawShapes[id] = RawShape(id)

\* seq with each of its elements once
RECURSIVE Once(_)
Once(seq) ==
    IF seq = <<>> THEN <<>>
    ELSE <<Head(seq)>> \o Once(SelectSeq(Tail(seq), LAMBDA e : e # Head(seq)))

\* the last operation was a withTypes that returned a pond
Registered == last.op = "withTypes" /\ last.err = NoError

\* the pond a withTypes with these descriptions returns
PondWith(pond, more) ==
    LET returned(w) == makePond(w.duckTypes)
    IN returned(withTypes(pond, rawShapes, more))

\* the pond returned behaves as if each description were given once
RegisteredOnce(parent, new, added) ==
    /\ Behaviour(new) = Behaviour(PondWith(parent, Once(added)))
    /\ Range(added) \subseteq Range(parent.duckTypes) =>
          Behaviour(new) = Behaviour(parent)

\* C6: the pond returned for descriptions some of which are given twice
\* behaves as the pond returned for each of them given once; the pond
\* returned for descriptions the pond already has behaves as that pond;
\* no pond holds a description twice, and no ambiguity error names one
\* description twice
C6_Idempotent ==
    /\ Registered /\ Unrewritten =>
          RegisteredOnce(ponds[last.pond], ponds[Len(ponds)], last.added)
    /\ \A p \in 1..Len(ponds) : Once(ponds[p].duckTypes) = ponds[p].duckTypes
    /\ last.op = "unduck" /\ AmbiguityError(last.err) => last.err.a # last.err.b

\* a pond that came of a description given twice was given the description
\* once more, and returned a pond
C6_Witness ==
    /\ Registered
    /\ Unrewritten
    /\ last.pond > 1
    /\ Range(last.added) \subseteq Range(ponds[last.pond].duckTypes)
    /\ Once(Family(family).setup) # Family(family).setup
    /\ ponds[last.pond].duckTypes = Once(Family(family).setup)

\* the step is a withTypes that returns a pond
Registers ==
    /\ last'.op = "withTypes"
    /\ last'.err = NoError
    /\ Len(ponds') = Len(ponds) + 1

\* a step adds a pond and leaves the ponds there are as they were
Scoped ==
    /\ Registers =>
          Range(ponds'[Len(ponds')].duckTypes)
            = Range(ponds[last'.pond].duckTypes) \cup Range(last'.added)
    /\ rawShapes' = rawShapes =>
          \A p \in 1..Len(ponds) :
              /\ ponds'[p].duckTypes = ponds[p].duckTypes
              /\ ponds'[p] # ponds[p] =>
                    Behaviour(ponds'[p]) = Behaviour(ponds[p])

\* C7: the pond withTypes returns has the descriptions of the pond it was
\* called on and the descriptions added, and no others; and no withTypes
\* and no call, on whichever pond, changes the descriptions of a pond
\* there is or what any call on it would throw or return
C7_Scoped == [][Scoped]_vars

\* a pond derived from a derived pond was called and returned a value,
\* and the pond it was derived from has not been called
C7_Witness ==
    /\ Len(ponds) >= 3
    /\ last.op = "unduck"
    /\ last.pond = 3
    /\ last.err = NoError
    /\ ponds[2].duckTypes # <<>>
    /\ Range(ponds[2].duckTypes) \subseteq Range(ponds[3].duckTypes)
    /\ Range(ponds[3].duckTypes) # Range(ponds[2].duckTypes)
    /\ ponds[2].root = NoRoot

\* the description has no classType function, no properties object, no
\* toConstructorArguments function, or a property __proto__
Ugly(duckType) ==
    \/ ~hasOwn(duckType, "classType")
    \/ ~hasOwn(duckType, "properties")
    \/ ~hasOwn(duckType, "toConstructorArguments")
    \/ duckType.classType.k # "function"
    \/ duckType.properties.k # "object"
    \/ duckType.toConstructorArguments.k # "function"
    \/ In("__proto__", duckType.properties.props)

\* a step that gives withTypes such a description
EagerlyValidated ==
    (/\ last'.op = "withTypes"
     /\ last.op = "none"
     /\ \E i \in 1..Len(last'.added) : Ugly(rawShapes[last'.added[i]]))
    => /\ last'.err.kind = "Error"
       /\ Len(ponds') = Len(ponds)
       /\ \A p \in 1..Len(ponds) :
             /\ ponds'[p].duckTypes = ponds[p].duckTypes
             /\ ponds'[p].root = ponds[p].root
             /\ Behaviour(ponds'[p]) = Behaviour(ponds[p])

\* C8: a withTypes given a description without a classType function,
\* without a properties object, without a toConstructorArguments function
\* or with a property __proto__ throws and returns no pond; the ponds there
\* are keep their descriptions, and every call on them throws or returns
\* what it would have before
C8_EagerValidation == [][EagerlyValidated]_vars

\* the own keys of the input bag that the description does not declare
Undeclared(type, bag) ==
    {bag[k][1] : k \in {m \in 1..Len(bag) :
                          ~In(bag[m][1], rawShapes[type].properties.props)}}

\* a call on a bag that holds no array and no bag
FlatBagCall == BagCall /\ Len(Input(last.input).graph) = 1

\* no candidate gets past a key it does not declare
DisallowedKeysRejected(bag, duckTypes) ==
    /\ \A j \in 1..Len(last.log) :
          (/\ last.log[j].fn \in {"toConstructorArguments", "new"}
           /\ rawShapes[last.log[j].type] = RawShape(last.log[j].type))
          => Undeclared(last.log[j].type, bag) = {}
    /\ (/\ Len(duckTypes) = 1
        /\ rawShapes[duckTypes[1]] = RawShape(duckTypes[1])
        /\ Undeclared(duckTypes[1], bag) # {})
       => last.err.kind = "MissingDuckError"

\* C9: a candidate that does not declare an own key of the input bag,
\* string or symbol, fails: toConstructorArguments and the constructor of
\* its description are not called for the bag; and a call on a pond with
\* one description that does not declare a key of the bag throws a
\* MissingDuckError
C9_DisallowedKey ==
    FlatBagCall =>
        DisallowedKeysRejected(Input(last.input).graph[1].props,
                               ponds[last.pond].duckTypes)

\* the keys the description declares with a default that the input bag
\* does not have
Defaulted(type, bag) ==
    {e[1] : e \in {f \in Range(rawShapes[type].properties.props) :
                     hasOwn(f[2], "default") /\ ~In(f[1], bag)}}

\* every default reaches convert and toConstructorArguments
DefaultsApplied(bag) ==
    /\ last.err.kind # "TypeError"
    /\ \A j \in 1..Len(last.log) :
          rawShapes[last.log[j].type] = RawShape(last.log[j].type) =>
              /\ (/\ last.log[j].fn = "convert"
                  /\ last.log[j].key \in Defaulted(last.log[j].type, bag))
                 => last.log[j].value
                      = RawProperty(last.log[j].type, last.log[j].key).default
              /\ last.log[j].fn = "toConstructorArguments" =>
                    \A key \in Defaulted(last.log[j].type, bag) :
                        /\ In(key, last.log[j].props)
                        /\ Get(last.log[j].props, key)
                             = Converted(RawProperty(last.log[j].type, key),
                                         RawProperty(last.log[j].type,
                                                     key).default)

\* C10: for every key a candidate declares with a default and the input
\* bag does not have, string or symbol, and however many such keys the
\* candidate declares, the convert of the caller for that key is called
\* with the default, toConstructorArguments gets the default, or what
\* convert made of it, under that key, and looking the default up does not
\* throw
C10_Defaults ==
    FlatBagCall => DefaultsApplied(Input(last.input).graph[1].props)

\* the value a candidate starts from under a key: the value of the input
\* bag, or the default of the descriptor where the bag has no such key
Supplied(rawProperty, bag, key) ==
    IF In(key, bag) THEN Get(bag, key) ELSE rawProperty.default

\* the literal-value check of the descriptor passes value
LiteralPasses(rawProperty, value) ==
    hasOwn(rawProperty, "value") => rawProperty.value = value

\* the type guard of the descriptor passes value, a primitive
GuardPasses(rawProperty, value) ==
    (hasOwn(rawProperty, "type") /\ rawProperty.type.k = "string")
    => rawProperty.type.s = (IF value.k = "null" THEN "object" ELSE value.k)

\* the trust substitution of the descriptor on value
Substituted(rawProperty, value) ==
    LET requireTrusted ==
            IF hasOwn(rawProperty, "trusted")
            THEN rawProperty.trusted = Bool(TRUE)
            ELSE hasOwn(rawProperty, "innocuous")
        innocuous ==
            IF hasOwn(rawProperty, "innocuous") THEN rawProperty.innocuous
            ELSE IF hasOwn(rawProperty, "default") THEN rawProperty.default
            ELSE Null
    IN IF requireTrusted /\ ~last.trusted THEN innocuous ELSE value

\* the keys of the description the candidate has a value for
Valued(type, bag) ==
    {e[1] : e \in {f \in Range(rawShapes[type].properties.props) :
                     In(f[1], bag) \/ hasOwn(f[2], "default")}}

\* every stage a descriptor declares came before the convert of the caller
\* and before toConstructorArguments
StagesInOrder(bag) ==
    \A j \in 1..Len(last.log) :
        rawShapes[last.log[j].type] = RawShape(last.log[j].type) =>
            /\ (/\ last.log[j].fn = "convert"
                /\ last.log[j].key \in Valued(last.log[j].type, bag))
               => LET staged(rawProperty, value) ==
                          /\ LiteralPasses(rawProperty, value)
                          /\ GuardPasses(rawProperty, value)
                          /\ last.log[j].value = Substituted(rawProperty, value)
                      of(rawProperty) ==
                          staged(rawProperty,
                                 Supplied(rawProperty, bag, last.log[j].key))
                  IN of(RawProperty(last.log[j].type, last.log[j].key))
            /\ last.log[j].fn = "toConstructorArguments" =>
                  \A key \in Valued(last.log[j].type, bag) :
                      LET staged(rawProperty, value) ==
                              /\ LiteralPasses(rawProperty, value)
                              /\ GuardPasses(rawProperty, value)
                              /\ Get(last.log[j].props, key)
                                   = Converted(rawProperty,
                                               Substituted(rawProperty, value))
                          of(rawProperty) ==
                              staged(rawProperty,
                                     Supplied(rawProperty, bag, key))
                      IN of(RawProperty(last.log[j].type, key))

\* C11: in a call on a bag of primitives, the convert of the caller for a
\* key is called only with a value that passed the literal-value check and
\* the type guard its descriptor declares, and gets what the trust
\* substitution made of that value; and toConstructorArguments is called
\* for a candidate only when the value of every key passed every check its
\* descriptor declares, and gets, under each key, what the convert of the
\* caller made of the substituted value
C11_ConversionPipeline ==
    FlatBagCall => StagesInOrder(Input(last.input).graph[1].props)

\* the candidate declares every string key of the bag and finds its
\* required keys in it
KeysFit(duckType, unchained) ==
    /\ \A i \in 1..Len(unchained) :
          IsSymbol(unchained[i][1]) \/ In(unchained[i][1], duckType.properties)
    /\ \A i \in 1..Len(duckType.requiredKeys) :
          In(duckType.requiredKeys[i], unchained)

\* the candidates of the input bag of the last call for which, each taken
\* alone, recursively unducking a value of the bag fails with a
\* MissingDuckError
SoftFailures(c, x) ==
    LET soft(candidates, unchained, st) ==
            {candidates[i].id : i \in
                {j \in 1..Len(candidates) :
                    /\ KeysFit(candidates[j], unchained)
                    /\ recurseLoop(c, candidates[j], 1, unchained, st).err.kind
                         = "MissingDuckError"}}
        of(unchained) == soft(Candidates(c, unchained), unchained, TopState(c, x))
    IN of(Unchained(c, x))

LastSoftFailures ==
    SoftFailures(CallContext(ponds[last.pond], last), Input(last.input).x)

\* the types toConstructorArguments was called for by the call of the caller
Argued ==
    {last.log[j].type : j \in {k \in 1..Len(last.log) :
                                  /\ last.log[k].fn = "toConstructorArguments"
                                  /\ last.log[k].call = 0}}

\* the soft failure of one candidate leaves the others to be screened
SoftFailureIsLocal(screenings, passing, soft) ==
    (/\ Len(screenings) >= 2
     /\ soft # {}
     /\ \A i \in 1..Len(screenings) :
            /\ screenings[i].result # "throws"
            /\ screenings[i].classType \notin ThrowingClasses)
    => /\ last.err = NoError <=> Cardinality(passing) = 1
       /\ Cardinality(passing) = 1 => passing \subseteq Argued
       /\ last.err.kind = "MissingDuckError" => passing = {}
       /\ last.err # NoError =>
             \/ last.err.kind = "MissingDuckError"
             \/ AmbiguityError(last.err)

\* C12: in a call on a bag with two or more candidates, one of which fails
\* because recursively unducking a value of the bag fails with a
\* MissingDuckError, and none of which throws another error when screened
\* alone, the other candidates are still screened: the call returns a value
\* if and only if exactly one candidate passes, toConstructorArguments was
\* called for that candidate, and the call fails with a MissingDuckError
\* only when no candidate passes and with no error but that one or the
\* ambiguity error
C12_SoftFailure ==
    BagCall =>
        LET law(screenings) ==
                SoftFailureIsLocal(screenings, Passing(screenings),
                                   LastSoftFailures)
        IN law(LastScreenings)

\* an error other than a MissingDuckError
Hard(err) == err # NoError /\ err.kind # "MissingDuckError"

\* what the function of the caller that the log entry records throws, or
\* NoError when it returns
ThrownBy(entry) ==
    CASE entry.fn = "new"
           /\ rawShapes[entry.type].classType.s \in ThrowingClasses ->
            Err("FooError", "BOO!", rawShapes[entry.type].classType.s, "")
      [] entry.fn = "convert"
           /\ RawProperty(entry.type, entry.key).convert.s = "throwingConvert" ->
            Err("Error", "convert threw", entry.key, "")
      [] entry.fn = "toConstructorArguments"
           /\ rawShapes[entry.type].toConstructorArguments.s
                = "throwingArguments" ->
            Err("Error", "toConstructorArguments threw", "", "")
      [] OTHER -> NoError

\* the error that leaves the screening of one candidate taken alone
ScreeningError(c, duckType, unchained, st) ==
    LET argued(args) == args.err
        applied(one) ==
            IF one.err # NoError THEN one.err
            ELSE IF one.isNull THEN NoError
            ELSE argued(toConstructorArguments(c, duckType, one.scratchSpace,
                                               one.st))
    IN applied(applyOneDuckType(c, duckType, unchained, FALSE, st))

\* the errors of the candidates of the input bag of a call, each taken alone
ScreeningErrors(c, x) ==
    LET each(candidates, unchained, st) ==
            [i \in 1..Len(candidates) |->
                ScreeningError(c, candidates[i], unchained, st)]
        of(unchained) == each(Candidates(c, unchained), unchained, TopState(c, x))
    IN of(Unchained(c, x))

\* the arrays and bags of the input the call entered
Entered(i) ==
    {n \in 1..Len(i.graph) :
        i.graph[n].kind \in {"pojo", "array"} /\ last.memo[n] # Unvisited}

\* what unducking the object n of the input on its own throws
ThrownAlone(c, n) == process(c, Ref(n), NewCall(c)).err

\* a hard error aborts the call
HardFailureAborts(c, i, errors) ==
    /\ \A j \in 1..Len(last.log) :
          ThrownBy(last.log[j]) # NoError =>
              /\ j = Len(last.log)
              /\ last.err = ThrownBy(last.log[j])
    /\ (\E j \in 1..Len(errors) : Hard(errors[j])) => Hard(last.err)
    /\ (errors # <<>> /\ Hard(errors[1])) => last.err = errors[1]
    /\ \A n \in Entered(i) : Hard(ThrownAlone(c, n)) => Hard(last.err)

\* C13: a function of the caller that throws is the last function the call
\* calls, and the call throws what it threw; a call on a bag one of whose
\* candidates, screened alone, throws an error other than a
\* MissingDuckError throws such an error itself, whatever the other
\* candidates do, and throws the error of the first candidate when that is
\* the one; and a call that entered an array or bag which, unducked on its
\* own, throws an error other than a MissingDuckError throws such an error
\* itself, at whatever depth the array or bag lies
C13_HardFailure ==
    last.op = "unduck" /\ ponds[last.pond].root # NoRoot =>
        LET law(c, i) ==
                HardFailureAborts(c, i,
                                  IF IsBag(last.input)
                                  THEN ScreeningErrors(c, i.x) ELSE <<>>)
        IN law(CallContext(ponds[last.pond], last), Input(last.input))

\* the constructor of a nested bag threw while a candidate of the bag that
\* holds it was screened, another candidate of that bag passes when
\* screened alone, and the call threw what the constructor threw
C13_Witness ==
    /\ BagCall
    /\ last.err.kind = "FooError"
    /\ last.log # <<>>
    /\ \A i \in 1..Len(LastScreenings) :
          LastScreenings[i].id # last.log[Len(last.log)].type
    /\ \E id \in Passing(LastScreenings) :
          rawShapes[id].classType.s \notin ThrowingClasses

\* the objects the object n of the input holds
Children(graph, n) ==
    {m \in 1..Len(graph) :
        \E j \in 1..Len(graph[n].props) : graph[n].props[j][2] = Ref(m)}

\* S and what is reached from S in up to k steps
RECURSIVE Descendants(_, _, _)
Descendants(graph, S, k) ==
    IF k = 0 THEN S
    ELSE Descendants(graph, S \cup UNION {Children(graph, n) : n \in S}, k - 1)

\* no object of the input holds itself, directly or through other objects
Acyclic(i) ==
    \A n \in 1..Len(i.graph) :
        n \notin Descendants(i.graph, Children(i.graph, n), Len(i.graph))

\* no match is a MissingDuckError
ZeroMatchesIsMissingDuck(i, screenings) ==
    Acyclic(i) =>
        /\ ~CycleError(last.err)
        /\ (IsBag(last.input)
            /\ \A j \in 1..Len(screenings) : screenings[j].result = "fails")
           => last.err.kind = "MissingDuckError"

\* C14: a call on an input no object of which holds itself does not fail
\* with the cycle error; and when its input is a bag none of whose
\* candidates, however many there are, passes or throws when screened
\* alone, the call fails with a MissingDuckError
C14_ZeroMatches ==
    last.op = "unduck" /\ ponds[last.pond].root # NoRoot =>
        ZeroMatchesIsMissingDuck(Input(last.input),
                                 IF IsBag(last.input) THEN LastScreenings
                                 ELSE <<>>)

\* the bags of the input
Bags(i) == {n \in 1..Len(i.graph) : i.graph[n].kind = "pojo"}

\* the value is a primitive, a function or a class instance
Passes(i, v) == ~Compound(i, v)

\* what is not an array or a bag is handed on as it is
PassedThrough(i) ==
    /\ \A n \in 1..Len(i.graph) :
          i.graph[n].kind \notin {"pojo", "array"} =>
              last.memo[n] = Unvisited
    /\ (Passes(i, i.x) /\ ponds[last.pond].root # NoRoot) =>
          /\ last.err = NoError
          /\ last.val = i.x
          /\ last.log = <<>>
          /\ last.heap = <<>>
    /\ \A n \in Done(i, "array") :
          \A j \in 1..Len(i.graph[n].props) :
              (/\ Passes(i, i.graph[n].props[j][2])
               /\ i.graph[n].props[j][1] \notin {"length", "__proto__"})
              => Get(last.heap[last.memo[n].n].props, i.graph[n].props[j][1])
                   = i.graph[n].props[j][2]
    /\ OneCall =>
          Cardinality(LogIndices("new")) <= Cardinality(Bags(i) \cap Entered(i))
    /\ (Bags(i) = {1} /\ i.x = Ref(1)) =>
          \A j \in 1..Len(last.log) :
              \A k \in 1..Len(i.graph[1].props) :
                  (/\ last.log[j].fn = "toConstructorArguments"
                   /\ Declares(last.log[j].type, i.graph[1].props[k][1])
                   /\ i.graph[1].props[k][2].k = "ref"
                   /\ Passes(i, i.graph[1].props[k][2]))
                  => Get(last.log[j].props, i.graph[1].props[k][1])
                       = Converted(RawProperty(last.log[j].type,
                                               i.graph[1].props[k][1]),
                                   Substituted(RawProperty(last.log[j].type,
                                                   i.graph[1].props[k][1]),
                                               i.graph[1].props[k][2]))

\* C15: a call never enters a primitive, a function or a class instance in
\* its unduckingMap; a call on such a value, on a pond whose tree is
\* built, returns the value itself and calls no function of the caller and
\* makes no object; an array of the
\* result holds such a value of the input array as it is; the constructors
\* called are no more than the bags entered; and toConstructorArguments
\* gets a class instance the input bag holds as it is, or what the convert
\* of the caller made of it
C15_PassThrough == last.op = "unduck" => PassedThrough(Input(last.input))

\* a call returned an array for an array that holds, among primitives and
\* a function, a class instance with the properties of a bag the pond has
\* a description for, and made an instance for the bag next to it
C15_Witness ==
    /\ last.op = "unduck"
    /\ last.err = NoError
    /\ \E n \in 1..Len(Input(last.input).graph) :
          /\ Input(last.input).graph[n].kind = "inst"
          /\ Input(last.input).graph[n].props = DatePojo.props
    /\ \E j \in 1..Len(last.log) : last.log[j].fn = "new"

\* the length of the array with these own properties, none of them at an
\* index beyond limit: one more than its largest index
ArrayLength(props, limit) ==
    LET indices == {i \in 0..limit : In(ToString(i), props)}
    IN IF indices = {} THEN 0
       ELSE 1 + CHOOSE i \in indices : \A j \in indices : j <= i

\* the array made has the own property `key'
OwnOf(props, key) == key = "length" \/ In(key, props)

\* the value of the array made under its own property `key'
ValueOf(props, key, limit) ==
    IF key = "length" THEN Num(ArrayLength(props, limit)) ELSE Get(props, key)

\* value a of one call and value b of another are the same primitive,
\* function or class instance, or objects of one class with the same keys
\* and with values that are alike, to depth k
RECURSIVE Alike(_, _, _, _, _)
Alike(heapA, a, heapB, b, k) ==
    IF a.k # "obj" \/ b.k # "obj" THEN a = b
    ELSE /\ k > 0
         /\ heapA[a.n].cls = heapB[b.n].cls
         /\ KeysOf(heapA[a.n].props) = KeysOf(heapB[b.n].props)
         /\ \A j \in 1..Len(heapA[a.n].props) :
               Alike(heapA, heapA[a.n].props[j][2],
                     heapB, heapB[b.n].props[j][2], k - 1)

\* the array made for the array n of the input holds, under each of the
\* keys, what unducking the value the input holds there gives on its own
Copied(c, i, n, keys) ==
    LET made == last.heap[last.memo[n].n].props
        limit == Get(i.graph[n].props, "length").n
        alone(v) == process(c, v, NewCall(c))
    IN \A j \in 1..Len(i.graph[n].props) :
          i.graph[n].props[j][1] \in keys =>
              /\ OwnOf(made, i.graph[n].props[j][1])
              /\ alone(i.graph[n].props[j][2]).err = NoError
              /\ Alike(last.heap,
                       ValueOf(made, i.graph[n].props[j][1], limit),
                       alone(i.graph[n].props[j][2]).st.heap,
                       alone(i.graph[n].props[j][2]).val,
                       Len(last.heap) + 1)

\* the own keys of the array n of the input
OwnKeys(i, n) == {i.graph[n].props[j][1] : j \in 1..Len(i.graph[n].props)}

\* the array made for each array finished is a new array
NewArrays(i) ==
    /\ \A n \in Done(i, "array") : last.heap[last.memo[n].n].cls = "Array"
    /\ \A n, m \in Done(i, "array") : n # m => last.memo[n] # last.memo[m]
    /\ (i.x.k = "ref" /\ i.x.n \in Done(i, "array") /\ last.err = NoError)
          => last.val = last.memo[i.x.n]

FlagOf(j) == IF last.log[j].call = 0 THEN last.trusted ELSE FALSE
ContextOf(j) == IF last.log[j].call = 0 THEN last.userContext ELSE Undefined

\* the constructor arguments are those toConstructorArguments: Array makes:
\* the bag of properties, trusted and userContext
ArgumentsAsGiven(arguments) ==
    /\ Len(arguments) = 3
    /\ arguments[1][2].k = "obj"
    /\ last.heap[arguments[1][2].n].cls = ""

\* every function of the caller gets the trust flag and the user context of
\* the call
ContextPropagated ==
    /\ \A j \in LogIndices("convert") \cup LogIndices("toConstructorArguments") :
          /\ last.log[j].trusted = FlagOf(j)
          /\ last.log[j].userContext = ContextOf(j)
    /\ \A j \in LogIndices("new") :
          ArgumentsAsGiven(last.heap[last.log[j].value.n].props) =>
              /\ last.heap[last.log[j].value.n].props[2][2] = Bool(FlagOf(j))
              /\ last.heap[last.log[j].value.n].props[3][2] = ContextOf(j)

\* C17: every convert function and every toConstructorArguments a call
\* calls, for a bag at whatever depth of the input, is given the trust flag
\* of the entry point called (false for unduck, true for unduck.trust) and
\* the user context given to that call, and a constructor that is handed
\* the arguments of toConstructorArguments: Array gets those two values
C17_ContextPropagation == last.op = "unduck" => ContextPropagated

\* a call of unduck.trust with a user context called convert and
\* toConstructorArguments for a bag and for the bag it holds
C17_Witness ==
    /\ last.op = "unduck"
    /\ last.trusted
    /\ last.userContext # Undefined
    /\ Len(Input(last.input).graph) >= 2
    /\ Cardinality(LogIndices("toConstructorArguments")) >= 2
    /\ Cardinality(LogIndices("convert")) >= 2

\* the descriptions as the caller wrote them
Original == [id \in DOMAIN rawShapes |-> RawShape(id)]

\* what the last call would have thrown or returned had no description of
\* its pond been rewritten since it was first given to withTypes
AsFirstNormalized ==
    LET returned(u) == [err |-> u.err, val |-> u.val, heap |-> u.st.heap]
        called(i) ==
            returned(unduck(makePond(ponds[last.pond].duckTypes), Original,
                            last.trusted, i.graph, i.x, last.userContext))
    IN called(Input(last.input))

\* C19: a description is normalized once, when it is first given to
\* withTypes: rewriting it afterwards changes the outcome of no call on a
\* pond that holds it, so every call throws or returns what it would with
\* the descriptions as they were when they were registered
C19_NormalizerCaching ==
    last.op = "unduck" =>
        [err |-> last.err, val |-> last.val, heap |-> last.heap]
            = AsFirstNormalized

\* the functions of the caller a call called, in order: which function, of
\* which description, for which key, in the caller's call or in a call a
\* convert function made
Trace(log) ==
    [j \in 1..Len(log) |->
        <<log[j].fn, log[j].type, log[j].key, log[j].call>>]

\* the calls j of a convert function that calls the pond again
Reentries ==
    {j \in LogIndices("convert") :
        /\ last.log[j].call = 0
        /\ last.userContext # Undefined
        /\ hasOwn(RawProperty(last.log[j].type, last.log[j].key), "convert")
        /\ RawProperty(last.log[j].type, last.log[j].key).convert
             = Fn("reenter")}

\* a call of the pond that a convert function makes calls the functions a
\* first call of the pond on that value calls, and throws what it throws,
\* whatever the call under way has entered or finished
OwnMap(c) ==
    \A j \in Reentries :
        LET alone == process(c, last.log[j].value, NewCall(c))
        IN /\ Len(last.log) >= j + Len(alone.st.log)
           /\ Trace(SubSeq(last.log, j + 1, j + Len(alone.st.log)))
                = Trace(alone.st.log)
           /\ alone.err # NoError => last.err = alone.err

\* a call made again enters what the call before entered and calls the
\* functions it called; a call on a pond whose tree is built leaves every
\* pond as it is; and no call touches a description
CallsApart ==
    /\ SameCall =>
          /\ last'.memo = last.memo
          /\ Trace(last'.log) = Trace(last.log)
    /\ (last.op = "none" /\ last'.op = "unduck") => rawShapes' = rawShapes
    /\ last'.op = "unduck" =>
          /\ Len(ponds') = Len(ponds)
          /\ \A p \in 1..Len(ponds) :
                (p # last'.pond \/ ponds[p].root # NoRoot)
                    => ponds'[p] = ponds[p]
          /\ ponds'[last'.pond].duckTypes = ponds[last'.pond].duckTypes

\* C20: every call has an unduckingMap of its own: a call made again,
\* after a call that returned or after one that threw, enters the same
\* arrays and bags and calls the same functions of the caller, the
\* constructors among them, as the call before; a call of the pond made
\* by a convert function while a call is under way calls the functions a
\* first call on that value calls, also for a bag the call under way has
\* finished or has in progress; and a call on a pond whose tree is built
\* changes no pond and no description
C20_PerCallMemo ==
    /\ [](last.op = "unduck" =>
            OwnMap([CallContext(ponds[last.pond], last) EXCEPT
                       !.trusted = FALSE, !.userContext = Undefined,
                       !.call = 1]))
    /\ [][CallsApart]_vars

\* a convert function called the pond again for a bag the call under way
\* had finished or had in progress, the call it made called a constructor,
\* and the call under way returned a value
C20_Witness ==
    /\ last.op = "unduck"
    /\ last.err = NoError
    /\ \E j \in Reentries :
          /\ last.log[j].value.k = "ref"
          /\ last.memo[last.log[j].value.n].k = "obj"
          /\ \E k \in LogIndices("new") : k > j /\ last.log[k].call = 1

\* C18: every call of a pond, whatever its descriptions and its input, the
\* arrays and bags that hold themselves and the nested ones among them,
\* comes to an end: as long as it has not returned or thrown it has a step
\* to take, the tree gets built, one constructor call after the other, and
\* process returns a value or throws
C18_Termination == [](Running => Stepping) /\ <>(walk.pc = "done")

\* a call on an array or bag that holds itself came to an end with the
\* cycle error, on a pond whose tree has more than one node
C18_Witness ==
    /\ walk.pc = "done"
    /\ CycleError(last.err)
    /\ ponds[1].root.kind # "leaf"

----------------------------------------------------------------------------
(* Diagnostics: the message of the MissingDuckError of processPojo.        *)

\* the calls the last call made itself of the function fn of the
\* description type, for the property key
CallsOf(fn, type, key) ==
    {j \in LogIndices(fn) :
        /\ last.log[j].type = type
        /\ last.log[j].key = key
        /\ last.log[j].call = 0}

\* the caller made a call on a bag of primitives, with candidates, that
\* threw a MissingDuckError
NoneMatched ==
    /\ FlatBagCall
    /\ last.err.kind = "MissingDuckError"
    /\ Candidates(CallContext(ponds[last.pond], last),
                  Unchained(CallContext(ponds[last.pond], last),
                            Input(last.input).x)) # <<>>

\* C21: the caller of the model never asks for the message of an error; a
\* call on a bag of primitives that threw a MissingDuckError has called the
\* convert of each property of each candidate at most once and the
\* toConstructorArguments of each candidate at most once (the candidates are
\* not evaluated a second time to describe the failure)
C21_LazyDiagnostics ==
    NoneMatched =>
        \A j \in 1..Len(last.log) :
            last.log[j].fn \in {"convert", "toConstructorArguments"}
              => Cardinality(CallsOf(last.log[j].fn, last.log[j].type,
                                     last.log[j].key)) <= 1

----------------------------------------------------------------------------
(* The order of the steps of one candidate, as the calls of the functions  *)
(* of the caller show it.                                                  *)

\* the normalized description the pond called keeps under id
Norm(id) == Get(ponds[last.pond].metadataMap, id)

\* the calls made before call j by the same call of the pond, in order
Before(j) ==
    SelectSeq([i \in 1..(j - 1) |-> i],
              LAMBDA i : last.log[i].call = last.log[j].call)

\* the keys of duckType whose convert calls a function of the caller, among
\* the keys of props, in the order of convertKeys
CallingKeys(duckType, props) ==
    SelectSeq(duckType.convertKeys,
              LAMBDA key :
                  /\ In(key, props)
                  /\ Get(duckType.properties, key).convert.rawConvert # Null)

\* the value is a bag or an array of the caller that process would replace
Unprocessed(value) ==
    /\ value.k = "ref"
    /\ Input(last.input).graph[value.n].kind \in {"pojo", "array"}

\* the value is an instance made by a constructor called before call j
MadeBefore(value, j) ==
    (value.k = "obj" /\ last.heap[value.n].cls # "Array")
      => \E i \in 1..(j - 1) :
            /\ last.log[i].fn = "new"
            /\ Norm(last.log[i].type).classType.s = last.heap[value.n].cls

\* the toConstructorArguments call j of duckType follows the convert calls
\* of duckType, one for every converted key in the order of convertKeys,
\* and its properties are what the steps before it leave when none fails
ArgumentsLast(j, duckType, props) ==
    LET keys == CallingKeys(duckType, props)
        before == Before(j)
        from == Len(before) - Len(keys)
    IN /\ from >= 0
       /\ \A i \in 1..Len(keys) :
             /\ last.log[before[from + i]].fn = "convert"
             /\ last.log[before[from + i]].type = duckType.id
             /\ last.log[before[from + i]].key = keys[i]
       /\ \A e \in Range(StringEntries(props)) : In(e[1], duckType.properties)
       /\ \A key \in Range(duckType.requiredKeys) : In(key, props)
       /\ \A key \in Range(duckType.defaultKeys) : In(key, props)
       /\ \A key \in Range(duckType.convertKeys) :
             In(key, props) => Get(props, key) # NotApplicable
       /\ \A key \in Range(duckType.recurseToKeys) :
             In(key, props) /\ key \notin Range(duckType.convertKeys)
               => /\ ~Unprocessed(Get(props, key))
                  /\ MadeBefore(Get(props, key), j)

\* the convert call j for a key that is recursed to is handed a value that
\* process has finished
RecursedFirst(j, duckType) ==
    (last.log[j].key \in Range(duckType.recurseToKeys)
       /\ ~Get(duckType.properties, last.log[j].key).convert.requireTrusted)
      => /\ ~Unprocessed(last.log[j].value)
         /\ MadeBefore(last.log[j].value, j)

\* a bag with a single candidate that fails a key check fails on the first
\* check it fails, before any function of the caller is called
KeyChecksFirst(duckType, unchained) ==
    LET disallowed ==
            \E e \in Range(StringEntries(unchained)) :
                ~In(e[1], duckType.properties)
        absent == \E key \in Range(duckType.requiredKeys) : ~In(key, unchained)
    IN /\ disallowed => last.err.msg = "does not allow key" /\ last.log = <<>>
       /\ ~disallowed /\ absent
            => last.err.msg = "Input does not have key" /\ last.log = <<>>

StepsInOrder ==
    /\ \A j \in LogIndices("toConstructorArguments") :
          ArgumentsLast(j, Norm(last.log[j].type), last.log[j].props)
    /\ \A j \in LogIndices("convert") :
          RecursedFirst(j, Norm(last.log[j].type))
    /\ LET c == CallContext(ponds[last.pond], last)
           candidates == Candidates(c, Unchained(c, Input(last.input).x))
       IN BagCall /\ Len(candidates) = 1
            => KeyChecksFirst(candidates[1], Unchained(c, Input(last.input).x))

\* C22: in every call, toConstructorArguments of a candidate is called after
\* its convert functions, which are called in the order of its convertKeys
\* (the order the properties are declared in), and only with properties that
\* passed the key checks, hold the defaults and were converted; a value that
\* is recursed to is processed, its instance constructed, before the convert
\* of its property is called; a single candidate that fails a key check
\* fails on the disallowed key before the missing key, and before any
\* function of the caller is called
C22_EvaluationOrder ==
    (last.op = "unduck" /\ ponds[last.pond].root # NoRoot) => StepsInOrder

\* a call constructed the instance for a nested bag, handed it to the convert
\* of the property that held the bag, and then called toConstructorArguments,
\* all for the same description
C22_Witness ==
    /\ last.op = "unduck"
    /\ last.err = NoError
    /\ \E i, j, k \in 1..Len(last.log) :
          /\ i < j /\ j < k
          /\ last.log[i].fn = "new"
          /\ last.log[j].fn = "convert"
          /\ last.log[j].value.k = "obj"
          /\ last.log[k].fn = "toConstructorArguments"
          /\ last.log[k].type = last.log[j].type
          /\ last.log[i].type = last.log[j].type

----------------------------------------------------------------------------
(* The recurse flag of a property.                                         *)

\* whether the caller asks for the values of a property to be unducked:
\* recurse when the descriptor has it, and else whether the descriptor has
\* no value
RecurseFlag(rawProperty) ==
    IF hasOwn(rawProperty, "recurse") THEN rawProperty.recurse = Bool(TRUE)
    ELSE ~hasOwn(rawProperty, "value")

\* the description id as the caller wrote it, and as it rewrites it
Written(id) ==
    {RawShape(id)}
      \cup IF id \in Family(family).mutable THEN {Mutated(id)} ELSE {}

\* recurseToKeys holds the keys of the description whose flag is set
FlagsKept(duckType) ==
    \E raw \in Written(duckType.id) :
        /\ KeysOf(duckType.properties) = MetadataKeyOrder(raw.properties.props)
        /\ \A key \in Range(KeysOf(duckType.properties)) :
              key \in Range(duckType.recurseToKeys)
                <=> RecurseFlag(Get(raw.properties.props, key))

\* the value is a bag or an array of the input
IsCompound(c, value) ==
    value.k = "ref" /\ c.graph[value.n].kind \in {"pojo", "array"}

\* the value of the property key as the candidate duckType hands it to the
\* convert of the property, or to toConstructorArguments when the property
\* has no convert function; one is what applyOneDuckType returned
Handed(duckType, key, one) ==
    LET calls == SelectSeq(one.st.log,
                           LAMBDA e : /\ e.fn = "convert" /\ e.call = 0
                                      /\ e.type = duckType.id /\ e.key = key)
    IN IF calls # <<>> THEN calls[Len(calls)].value
       ELSE Get(one.scratchSpace, key)

\* the convert of the property hands on the value it is given, or hands it
\* to the function of the caller (a symbol key may have no property)
Observable(c, duckType, key) ==
    LET cv == Get(duckType.properties, key).convert
    IN \/ ~In(key, duckType.properties)
       \/ cv.kind # "composed" \/ ~cv.requireTrusted \/ c.trusted

\* a candidate that applies was handed the processed value for a property
\* that recurses, and the value of the input for one that does not
RecursedExactly(c, duckType, unchained, one) ==
    (one.err = NoError /\ ~one.isNull) =>
        \A key \in Range(KeysOf(unchained)) :
            Observable(c, duckType, key) =>
                LET given == Get(unchained, key)
                    handed == Handed(duckType, key, one)
                IN IF key \in Range(duckType.recurseToKeys)
                      /\ IsCompound(c, given)
                   THEN /\ handed.k = "obj"
                        /\ handed = one.st.memo[given.n]
                   ELSE handed = given

\* every candidate of the bag the last call was made on
EachCandidate(P(_, _, _, _)) ==
    LET each(c, x) ==
            \A duckType \in Range(Candidates(c, Unchained(c, x))) :
                P(c, duckType, Unchained(c, x),
                  applyOneDuckType(c, duckType, Unchained(c, x), FALSE,
                                   TopState(c, x)))
    IN each(CallContext(ponds[last.pond], last), Input(last.input).x)

\* C23: the keys a normalized description recurses to are the keys whose
\* descriptor has recurse: true, or has neither recurse nor value; and a
\* candidate that applies to a bag was handed, for each property of the bag,
\* the processed value when the property recurses and holds a bag or an
\* array, and the very value of the input otherwise
C23_RecursionFlag ==
    /\ \A p \in 1..Len(ponds) :
          \A e \in Range(ponds[p].metadataMap) : FlagsKept(e[2])
    /\ BagCall => EachCandidate(RecursedExactly)

\* a call on a bag with a candidate that applies and has a property that
\* recurses and one that does not, both holding a bag
C23_Witness ==
    /\ BagCall
    /\ last.err = NoError
    /\ LET holds(c, duckType, unchained, one) ==
               /\ one.err = NoError /\ ~one.isNull
               /\ \E k1, k2 \in Range(KeysOf(unchained)) :
                     /\ k1 \in Range(duckType.recurseToKeys)
                     /\ k2 \notin Range(duckType.recurseToKeys)
                     /\ IsCompound(c, Get(unchained, k1))
                     /\ IsCompound(c, Get(unchained, k2))
                     /\ Observable(c, duckType, k1)
                     /\ Observable(c, duckType, k2)
       IN ~EachCandidate(LAMBDA c, t, u, one : ~holds(c, t, u, one))

----------------------------------------------------------------------------
(* The decision tree of a pond, against the descriptions it was built of.  *)

\* the normalized descriptions the tree of pond is built of
Normalized(pond) ==
    LET ids == Distinct(pond.duckTypes)
    IN [i \in 1..Len(ids) |-> Get(pond.metadataMap, ids[i])]

Lacks(t, key) == ~In(key, t.properties)
Optional(t, key) == In(key, t.properties) /\ ~Get(t.properties, key).required
Constrains(t, key) == In(key, t.properties) /\ Get(t.properties, key).hasValue
Unconstrained(t, key) ==
    In(key, t.properties) /\ ~Get(t.properties, key).hasValue

\* the node holds the descriptions of the set types
Holds(node, types) == node.count = Cardinality(types)

\* the tree under node, which was built of the descriptions duckTypes, is
\* split as the claim says: P(node, types) holds of the children of every
\* node that tests a key, for the descriptions types the claim gives them
RECURSIVE Composed(_, _)
Composed(node, duckTypes) ==
    LET sub(types) == SelectSeq(duckTypes, LAMBDA t : t \in types)
        all == Range(duckTypes)
        onKey(key) ==
            LET haveNot == {t \in all : Lacks(t, key) \/ Optional(t, key)}
                have == {t \in all : Unconstrained(t, key)}
                values == {Get(t.properties, key).value :
                              t \in {u \in all : Constrains(u, key)}}
                valued(v) ==
                    {t \in all : /\ Constrains(t, key)
                                 /\ Get(t.properties, key).value = v}
                      \cup have
            IN /\ Holds(node.haveNot, haveNot)
               /\ Composed(node.haveNot, sub(haveNot))
               /\ Holds(node.have, have)
               /\ Composed(node.have, sub(have))
               /\ Range(KeysOf(node.valueMap)) = values
               /\ \A v \in values :
                     /\ Holds(Get(node.valueMap, v), valued(v))
                     /\ Composed(Get(node.valueMap, v), sub(valued(v)))
        onMayHave ==
            /\ \A e \in Range(node.mayHaveMap) :
                  Composed(e[2], sub({t \in all : ~Lacks(t, e[1])}))
            /\ Composed(node.haveNone, duckTypes)
    IN /\ Holds(node, all)
       /\ CASE node.kind = "leaf" -> Range(node.duckTypes) = all
            [] node.kind = "key" -> onKey(node.key)
            [] node.kind = "may" -> onMayHave

\* C24: in the tree of every pond, a node that splits its descriptions on
\* the key k has a have-not child that holds the descriptions without k and
\* the ones in which k is not required, a have child that holds the
\* descriptions with k and without a value for it, and for every value v
\* that a description gives k one child, which holds the descriptions that
\* give k the value v and the descriptions of the have child
C24_PartitionComposition ==
    \A p \in 1..Len(ponds) :
        ponds[p].root # NoRoot
          => Composed(ponds[p].root, Normalized(ponds[p]))

\* some node of the tree under node, built of duckTypes, splits on a key
\* that a description constrains to a value, a description has without a
\* value, and a description does not require
RECURSIVE Splits(_, _)
Splits(node, duckTypes) ==
    LET here(key) ==
            /\ \E t \in Range(duckTypes) : Constrains(t, key)
            /\ \E t \in Range(duckTypes) : Unconstrained(t, key)
            /\ \E t \in Range(duckTypes) : Optional(t, key)
        below(key) ==
            \/ Splits(node.haveNot,
                      SelectSeq(duckTypes,
                                LAMBDA t : Lacks(t, key) \/ Optional(t, key)))
            \/ Splits(node.have,
                      SelectSeq(duckTypes, LAMBDA t : Unconstrained(t, key)))
    IN /\ node.kind = "key"
       /\ here(node.key) \/ below(node.key)

\* a pond has built a tree with such a node
C24_Witness ==
    \E p \in 1..Len(ponds) :
        /\ ponds[p].root # NoRoot
        /\ Splits(ponds[p].root, Normalized(ponds[p]))

\* the lists of descriptions the leaves of the tree under node hold
RECURSIVE Leaves(_)
Leaves(node) ==
    CASE node.kind = "leaf" -> {node.duckTypes}
      [] node.kind = "key" ->
            Leaves(node.haveNot) \cup Leaves(node.have)
              \cup UNION {Leaves(e[2]) : e \in Range(node.valueMap)}
      [] node.kind = "may" ->
            Leaves(node.haveNone)
              \cup UNION {Leaves(e[2]) : e \in Range(node.mayHaveMap)}

\* the elements of part are distinct elements of whole, in the order they
\* have in whole
InTheOrderOf(part, whole) ==
    \A i, j \in 1..Len(part) :
        i < j => \E m, n \in 1..Len(whole) :
                    m < n /\ whole[m] = part[i] /\ whole[n] = part[j]

\* C25: the tree a pond has built is the tree its descriptions give whenever
\* it is built of them, and every leaf of it holds its descriptions in the
\* order the pond was given them
C25_TreeOrder ==
    \A p \in 1..Len(ponds) :
        ponds[p].root # NoRoot
          => /\ ponds[p].root = DTree(Normalized(ponds[p]), {})
             /\ \A leaf \in Leaves(ponds[p].root) :
                   InTheOrderOf(leaf, Normalized(ponds[p]))

\* the descriptor says trusted: true
SaysTrusted(rawProperty) ==
    hasOwn(rawProperty, "trusted") /\ rawProperty.trusted = Bool(TRUE)

\* the convert of the caller sees the input value of every property whose
\* descriptor does not say trusted: true
TrustDefault(bag) ==
    \A j \in 1..Len(last.log) :
        (/\ last.log[j].fn = "convert"
         /\ Declares(last.log[j].type, last.log[j].key)
         /\ ~SaysTrusted(RawProperty(last.log[j].type, last.log[j].key))
         /\ In(last.log[j].key, bag))
        => last.log[j].value = Get(bag, last.log[j].key)

\* C26: a property requires trust only if its descriptor says trusted: true:
\* for a descriptor without it, the innocuous value never takes the place of
\* the input value, whether or not the call is trusted
C26_TrustDefault == BagCall => TrustDefault(PlainEntries(Input(last.input)))

----------------------------------------------------------------------------
(* The node the duck hunt reaches, against a scan of every description.    *)

\* the descriptions of the pond that pass the full screening on the bag x,
\* each screened on its own
Matching(c, pond, x) ==
    LET scan(duckTypes, unchained, st) ==
            {i \in 1..Len(duckTypes) :
                Screening(c, duckTypes[i], unchained, st) = "passes"}
    IN scan(Normalized(pond), Unchained(c, x), TopState(c, x))

\* the hunt for the bag x reaches a node that holds every description that
\* passes the full screening on x, so the descriptions that pass among its
\* candidates are the descriptions that pass in the whole pond; and it
\* finds no node only when no description passes
Sound(c, pond, x) ==
    LET held(duckTypes, matching, hunt) ==
            /\ hunt.missing => matching = {}
            /\ ~hunt.missing =>
                  /\ \A i \in matching :
                        duckTypes[i] \in Range(hunt.node.duckTypes)
                  /\ {t \in Range(hunt.node.duckTypes) :
                        Screening(c, t, Unchained(c, x), TopState(c, x))
                          = "passes"}
                       = {duckTypes[i] : i \in matching}
    IN held(Normalized(pond), Matching(c, pond, x),
            duckHunt(pond.root, Unchained(c, x)))

\* a call that no error other than a MissingDuckError aborts returns an
\* instance for the bag x exactly when one description of the whole pond
\* passes the full screening on x, and the instance is of its class
Picks(c, pond, x) ==
    LET picked(duckTypes, matching) ==
            /\ last.err = NoError =>
                  /\ Cardinality(matching) = 1
                  /\ \A i \in matching :
                        duckTypes[i].classType.s = last.heap[last.val.n].cls
            /\ Cardinality(matching) = 1 => last.err.kind # "MissingDuckError"
            /\ ~Hard(last.err) =>
                  (last.err = NoError <=> Cardinality(matching) = 1)
    IN picked(Normalized(pond), Matching(c, pond, x))

----------------------------------------------------------------------------
(* The in-progress marker, at every step of a call.                        *)

\* the arrays and bags that an activation of process is working on
OnStack(w) == {w.stack[i].n : i \in 1..Len(w.stack)}

\* the arrays and bags that unduckingMap holds the in-progress marker for
InProgress(st) ==
    {n \in 1..Len(st.memo) : st.memo[n] = IN_PROGRESS_BREADCRUMB}

\* C28: while a call runs and no exception is in flight, unduckingMap holds
\* the in-progress marker only for arrays and bags that an activation of
\* process on the stack is working on; and a call ends with the cycle
\* error only on an input graph that has a cycle
C28_InProgressMarker ==
    /\ walk.pc \in {"call", "loop", "return"} =>
          InProgress(walk.st) \subseteq OnStack(walk)
    /\ (walk.pc = "done" /\ CycleError(last.err)) =>
          ~Acyclic(Input(last.input))

----------------------------------------------------------------------------
(* The candidates of one bag, one after the other and each on its own.     *)

\* the candidates tentativelyApplyDuckTypes evaluates from index i of the
\* types of node, each with the state of the call it is evaluated in;
\* applied tells whether an earlier candidate applied
RECURSIVE Evaluations(_, _, _, _, _, _)
Evaluations(c, node, i, unchained, applied, st) ==
    LET this == [duckType |-> node.duckTypes[i], before |-> st]
        argued(args) ==
            IF args.err # NoError THEN <<this>>
            ELSE IF args.val = NotAnArray
            THEN IF node.count = 1 THEN <<this>>
                 ELSE <<this>> \o Evaluations(c, node, i + 1, unchained,
                                              applied, args.st)
            ELSE IF applied THEN <<this>>
            ELSE <<this>> \o Evaluations(c, node, i + 1, unchained, TRUE,
                                         args.st)
        tried(one) ==
            IF one.err # NoError THEN <<this>>
            ELSE IF one.isNull
            THEN <<this>> \o Evaluations(c, node, i + 1, unchained, applied,
                                         one.st)
            ELSE argued(toConstructorArguments(c, node.duckTypes[i],
                                               one.scratchSpace, one.st))
    IN IF i > Len(node.duckTypes) THEN <<>>
       ELSE tried(applyOneDuckType(c, node.duckTypes[i], unchained,
                                   node.count = 1, st))

\* two evaluations of a candidate end alike: with the same error, or the
\* same failure, or with properties for toConstructorArguments that have
\* the same keys and values that are alike
SameEnd(a, b) ==
    /\ a.err = b.err
    /\ a.err = NoError =>
          /\ a.isNull = b.isNull
          /\ a.isNull => a.failure = b.failure
          /\ ~a.isNull =>
                /\ KeysOf(a.scratchSpace) = KeysOf(b.scratchSpace)
                /\ \A j \in 1..Len(a.scratchSpace) :
                      Alike(a.st.heap, a.scratchSpace[j][2],
                            b.st.heap, b.scratchSpace[j][2], 6)

\* every candidate of the bag x ends, where the call evaluates it, as it
\* ends when it is evaluated first
Isolated(c, x) ==
    LET each(node, unchained) ==
            \A e \in Range(Evaluations(c, node, 1, unchained, FALSE,
                                       TopState(c, x))) :
                SameEnd(applyOneDuckType(c, e.duckType, unchained,
                                         node.count = 1, e.before),
                        applyOneDuckType(c, e.duckType, unchained,
                                         node.count = 1, TopState(c, x)))
        hunted(unchained, hunt) == ~hunt.missing => each(hunt.node, unchained)
    IN hunted(Unchained(c, x), duckHunt(c.root, Unchained(c, x)))

\* C29: every candidate of the bag a call is made on is evaluated on the
\* key/value pairs of the input, and what the candidates before it did
\* does not show in it: it ends as it ends when it is evaluated first
C29_CandidateIsolation ==
    BagCall => Isolated(CallContext(ponds[last.pond], last),
                        Input(last.input).x)

----------------------------------------------------------------------------
(* The same key/value pairs, enumerated in another order.                  *)

\* the orders of n things
Orders(n) ==
    {p \in [1..n -> 1..n] : \A i, j \in 1..n : i # j => p[i] # p[j]}

\* a key that is enumerated in ascending numeric order, before the others,
\* however the bag was written
IntegerLike(key) == \E n \in 0..9 : key = ToString(n)

\* the bags of the input whose string keys may be enumerated in any order
Reorderable(i) ==
    {n \in Bags(i) : \A e \in Range(i.graph[n].props) : ~IntegerLike(e[1])}

\* the input with the string keys of its bag n enumerated in the order p;
\* symbol keys come after the string keys in every enumeration
Reordered(i, n, p) ==
    LET strings == StringEntries(i.graph[n].props)
    IN [i EXCEPT !.graph[n].props =
           [j \in 1..Len(strings) |-> strings[p[j]]]
             \o SymbolEntries(i.graph[n].props)]

\* value a of one call and value b of another are the same primitive,
\* function or class instance, or objects of one class with the same keys,
\* in whatever order, and with values that are alike, to depth k
RECURSIVE AlikeInAnyOrder(_, _, _, _, _)
AlikeInAnyOrder(heapA, a, heapB, b, k) ==
    IF a.k # "obj" \/ b.k # "obj" THEN a = b
    ELSE /\ k > 0
         /\ heapA[a.n].cls = heapB[b.n].cls
         /\ Range(KeysOf(heapA[a.n].props)) = Range(KeysOf(heapB[b.n].props))
         /\ \A key \in Range(KeysOf(heapA[a.n].props)) :
               AlikeInAnyOrder(heapA, Get(heapA[a.n].props, key),
                               heapB, Get(heapB[b.n].props, key), k - 1)

\* the classes the call made instances of, each as many times as the call
\* made one
Made(log) ==
    LET news == SelectSeq(log, LAMBDA e : e.fn = "new")
    IN [type \in {news[j].type : j \in 1..Len(news)} |->
           Cardinality({j \in 1..Len(news) : news[j].type = type})]

\* the call u ends as the last call did: with an error of the same kind,
\* and the same one when it is not a MissingDuckError, or with the same
\* descriptions matched and a result that is alike
SameOutcome(u) ==
    /\ u.err.kind = last.err.kind
    /\ Hard(u.err) =>
          /\ u.err.msg = last.err.msg
          /\ {u.err.a, u.err.b} = {last.err.a, last.err.b}
    /\ u.err = NoError =>
          /\ Made(u.st.log) = Made(last.log)
          /\ AlikeInAnyOrder(u.st.heap, u.val, last.heap, last.val, 6)

\* the last call, made again on input i
Again(i) ==
    unduck(ponds[last.pond], rawShapes, last.trusted, i.graph, i.x,
           last.userContext)

RECURSIVE MayHaveNode(_, _)
MayHaveNode(node, x) ==
    IF node.kind = "may" THEN node
    ELSE IF node.kind # "key" THEN NoRoot
    ELSE IF ~In(node.key, x) THEN MayHaveNode(node.haveNot, x)
    ELSE IF In(Get(x, node.key), node.valueMap)
    THEN MayHaveNode(Get(node.valueMap, Get(x, node.key)), x)
    ELSE MayHaveNode(node.have, x)

=============================================================================
